---- MODULE Spec2Model ----
(***************************************************************************)
(* Frame-acquisition engine of ROD: the libcamera wrapper (completion      *)
(* callback, completion FIFO, start/stop, blocking capture) and the        *)
(* CameraContext layer of camera.c that guards it with its started flag.   *)
(*                                                                         *)
(* Three threads of control are modelled, each with its own position:      *)
(*   - the controller, calling camera_set_size / camera_start /            *)
(*     camera_stop;                                                        *)
(*   - the consumer, calling camera_take_picture;                          *)
(*   - the hardware's completion thread, running                           *)
(*     request_completed_handler.                                          *)
(* A critical section under request_mutex is one atomic step.  Steps that  *)
(* the code performs without the mutex are steps of their own.             *)
(***************************************************************************)
EXTENDS Integers, Sequences, FiniteSets, TLC

\* ---------------------------------------------------------------- bounds
NumBuffers == 2      \* buffers the allocator reports for the stream
MaxCompletions == 3  \* successful hardware completions in one behaviour
TimeoutTicks == 1    \* clock ticks that make up the capture timeout
MaxStarts == 2       \* executions of the body of camera_start
MaxFaults == 1       \* failures the hardware / allocator may inject

Slots == 1..NumBuffers

\* A Request* is identified by the buffer slot it carries and by the
\* allocation (start generation) that created it.
Req(s, g) == [slot |-> s, gen |-> g]
Generations == 1..MaxStarts
RequestIds == [slot : Slots, gen : Generations]

NoRequest == [slot |-> 0, gen |-> 0]
\* The caller's buffer pointer: NULL, or a malloc'd copy holding frame data.
NULL == <<>>
Frame(d) == <<d>>
Torn == -1           \* bytes read from a buffer the hardware is writing

\* Dimensions the controller may ask for.
SizeChoices == {<<320, 240>>}

VARIABLES
    \* struct CameraContext (camera.c)
    width, height, configured, started,
    \* struct LibCameraContext (libcamera_wrapper.cpp)
    config, allocator, requests, completed_requests, running,
    \* libcamera Camera and the buffers behind the allocator
    hwRunning, hwQueued, bufData, nCompl,
    \* request_completed_handler: position, argument, request->status()
    cbPc, cbReq, cbStatus,
    \* camera_take_picture / libcamera_capture_frame: position, clock,
    \* local `request`, return value, caller's *out_buffer, *out_width,
    \* *out_height, *out_size
    cPc, elapsed, held, cRet, out_buffer, out_width, out_height, out_size,
    \* controller: position, loop index, last call and its return value
    kPc, kIdx, kOp, kRet,
    \* history: completion ids in push order, data of the frame delivered
    \* last, number of starts, injected faults, the stop in progress began
    \* while the consumer was waiting
    pushed, lastFrame, nStarts, faults, stopWhileWaiting,
    \* struct Camera (camera_interface.c): backend type, width, height
    camType, ifWidth, ifHeight,
    \* the emulated backend's context: width, height, started
    emuWidth, emuHeight, emuStarted,
    \* g_active_context; requestCompleted is connected to the handler; calls
    \* of camera->release() that released the device
    g_active_context, connected, released,
    \* a second LibCameraContext B, of which only what the completion
    \* handler touches is kept: lifecycle, running flag, completion FIFO,
    \* requests handed to its camera->queueRequest by the handler
    bState, runningB, fifoB, bQueueCalls,
    \* rod_cv: the DetectionResult of the frame, the caller's homography_inv
    \* buffer, the mask create_field_mask_from_image returned, the caller's
    \* MarkerData array, the last call, its arguments and its return value
    detection, homography_inv, mask, markers, cvOp, cvArgs, cvRet,
    \* the caller's camera-to-playground transform_matrix
    transform_matrix,
    \* rod_detection: the main loop's position, the shutdown flag, the
    \* context's field mask, the markers last sent to the socket, the
    \* result of the last capture and the number of failed captures
    lPc, g_running, field_mask, sent, captured, failedCaptures,
    \* the arguments of the frame's call of create_field_mask_from_image,
    \* <<>> when the frame made none
    maskAttempt,
    \* what the iteration in progress has done with its image_buffer, its
    \* original_image and its DetectionResult: "none" (not acquired),
    \* "held", "released", or "double" (released without being held)
    owned,
    \* AppContext.camera: "NULL", "created", or "destroyed" when it still
    \* points to a camera camera_destroy has freed; and the calls made on
    \* that camera since camera_create returned it
    ctx_camera, cameraCalls,
    \* build_control_list: its params argument and the ControlList built
    params, controls,
    \* request_mutex and request_cv seen lock by lock: the thread that holds
    \* the mutex, whether the consumer is blocked on the condition variable,
    \* whether it has been notified, the last access to running or to
    \* completed_requests, and whether a frame was pushed for the capture
    \* in progress
    request_mutex, cvWaiting, notified, lastAccess, frameForCall

camVars == <<width, height, configured, started>>
ctxVars == <<config, allocator, requests, completed_requests, running>>
hwVars == <<hwRunning, hwQueued, bufData, nCompl>>
cbVars == <<cbPc, cbReq, cbStatus>>
outVars == <<out_width, out_height, out_size>>
conVars == <<cPc, elapsed, held, cRet, out_buffer, outVars>>
ctlVars == <<kPc, kIdx, kOp, kRet>>
histVars == <<pushed, lastFrame, nStarts, faults, stopWhileWaiting>>
cameraVars ==
    <<camVars, ctxVars, hwVars, cbVars, conVars, ctlVars, histVars>>
ifaceVars == <<camType, ifWidth, ifHeight>>
emuVars == <<emuWidth, emuHeight, emuStarted>>
\* State outside the capture engine, which the engine's steps leave alone.
routeVars == <<g_active_context, connected, released>>
ctxBVars == <<bState, runningB, fifoB, bQueueCalls>>
cvVars ==
    <<detection, homography_inv, mask, markers, cvOp, cvArgs, cvRet,
      transform_matrix>>
loopVars ==
    <<lPc, g_running, field_mask, sent, captured, failedCaptures,
      maskAttempt, owned>>
visionVars == <<cvVars, loopVars>>
paramVars == <<params, controls>>
monVars == <<request_mutex, cvWaiting, notified, lastAccess, frameForCall>>
appVars == <<ctx_camera, cameraCalls>>
otherVars == <<visionVars, paramVars, monVars, appVars>>
auxVars == <<ifaceVars, emuVars, routeVars, ctxBVars, otherVars>>
vars == <<cameraVars, auxVars>>

Range(s) == {s[i] : i \in DOMAIN s}

\* The process died of a memory error: nothing runs any more.
crashed == cRet = "Crash"

\* ------------------------------------------------------------------ Init
\* camera_init + libcamera_init + libcamera_open_camera
CameraInit ==
    /\ width = 640 /\ height = 480 /\ configured = FALSE /\ started = FALSE
    /\ config = <<>> /\ allocator = FALSE /\ requests = <<>>
    /\ completed_requests = <<>> /\ running = FALSE
    /\ hwRunning = FALSE /\ hwQueued = {} /\ bufData = [s \in Slots |-> 0]
    /\ nCompl = 0
    /\ cbPc = "idle" /\ cbReq = NoRequest /\ cbStatus = "None"
    /\ cPc = "idle" /\ elapsed = 0 /\ held = NoRequest /\ cRet = "None"
    /\ out_buffer = NULL
    /\ out_width = 0 /\ out_height = 0 /\ out_size = 0
    /\ kPc = "idle" /\ kIdx = 0 /\ kOp = "init" /\ kRet = 0
    /\ pushed = <<>> /\ lastFrame = 0 /\ nStarts = 0 /\ faults = 0
    /\ stopWhileWaiting = FALSE

\* camera_create(type): the interface's own copy of the default size
InterfaceInit(type) ==
    /\ camType = type /\ ifWidth = 640 /\ ifHeight = 480
    /\ emuWidth = 640 /\ emuHeight = 480 /\ emuStarted = FALSE

\* build_control_list has not been called with p.
ParametersInit(p) == params = p /\ controls = {}

\* The context as libcamera_init leaves it: nobody in the monitor.
MonitorIdle ==
    /\ request_mutex = "free" /\ cvWaiting = FALSE /\ notified = FALSE
    /\ lastAccess = <<>> /\ frameForCall = FALSE

\* libcamera_open_camera has registered the context (A) as the active one
\* and connected the handler; a second context B has been created by
\* libcamera_init and not opened.
ContextInit ==
    /\ g_active_context = "A" /\ connected = TRUE /\ released = 0
    /\ bState = "init" /\ runningB = FALSE /\ fifoB = <<>>
    /\ bQueueCalls = {}

\* A homography is <<num, den>>: it maps p to p * num / den.  Zeroed is
\* the content of a buffer nobody wrote; Degenerate is the solver's answer
\* to points that fit no scaling.
Zeroed == <<0, 1>>
Degenerate == <<-1, 1>>

\* An iteration that has acquired nothing yet.
NothingOwned ==
    [image_buffer |-> "none", original_image |-> "none",
     detection |-> "none"]

\* free, release_image or releaseDetectionResult on a resource in state st.
Release(st) == IF st = "held" THEN "released" ELSE "double"

\* rod_cv has not been called: the detector finds det in the frame, the
\* caller's homography_inv buffer holds Hinv.
VisionInit(det, Hinv) ==
    /\ detection = det
    /\ homography_inv = Hinv /\ mask = NULL /\ markers = <<>>
    /\ cvOp = "none" /\ cvArgs = <<>> /\ cvRet = 0
    /\ transform_matrix = <<0, 0, 0>>
    \* init_app_context: the loop not entered yet, no mask, nothing sent
    /\ lPc = "test" /\ g_running = TRUE /\ field_mask = NULL
    /\ sent = <<>> /\ captured = "none" /\ failedCaptures = 0
    /\ maskAttempt = <<>> /\ owned = NothingOwned
    /\ ctx_camera = "created" /\ cameraCalls = <<>>

\* The capture engine driven directly, on the hardware backend.
Init ==
    /\ CameraInit /\ InterfaceInit("IMX477") /\ ContextInit
    /\ ParametersInit(NULL) /\ MonitorIdle
    /\ VisionInit(<<>>, Zeroed)


\* ------------------------------------------------------------ controller
KReturn(op, ret) ==
    /\ kPc' = "idle" /\ kIdx' = 0 /\ kOp' = op /\ kRet' = ret

\* A failure injected by the allocator, the kernel or the camera.
InjectFault ==
    /\ faults < MaxFaults
    /\ faults' = faults + 1

\* camera_set_size without its test of started.
camera_set_size_Unguarded(d) ==
    /\ kPc = "idle" /\ ~crashed
    /\ width' = d[1] /\ height' = d[2]
    /\ KReturn("set_size", 0)
    /\ UNCHANGED <<configured, started, ctxVars, hwVars, cbVars, conVars,
                   histVars>>

\* camera.c: int camera_set_size(ctx, width, height)
camera_set_size(d) ==
    /\ kPc = "idle" /\ ~crashed
    /\ IF started
       THEN /\ KReturn("set_size", -1)
            /\ UNCHANGED <<width, height>>
       ELSE /\ width' = d[1] /\ height' = d[2]
            /\ KReturn("set_size", 0)
    /\ UNCHANGED <<configured, started, ctxVars, hwVars, cbVars, conVars,
                   histVars>>

\* camera_start without its early return for a started camera.
camera_start_Unguarded ==
    /\ kPc = "idle" /\ ~crashed
    /\ nStarts < MaxStarts
    /\ nStarts' = nStarts + 1
    /\ kPc' = "start_alloc"
    /\ config' = IF configured THEN config ELSE <<width, height>>
    /\ configured' = TRUE
    /\ UNCHANGED <<kIdx, kOp, kRet, faults>>
    /\ UNCHANGED <<width, height, started, allocator, requests,
                   completed_requests, running, hwVars, cbVars, conVars,
                   pushed, lastFrame, stopWhileWaiting>>

\* camera.c: int camera_start(ctx), up to the call of libcamera_start;
\* libcamera_configure is run on the first start only.
camera_start ==
    /\ kPc = "idle" /\ ~crashed
    /\ IF started
       THEN /\ KReturn("start_already", 0)
            /\ UNCHANGED <<configured, config, nStarts, faults>>
       ELSE /\ nStarts < MaxStarts
            /\ nStarts' = nStarts + 1
            /\ IF configured
               THEN /\ kPc' = "start_alloc"
                    /\ UNCHANGED <<kIdx, kOp, kRet, configured, config,
                                   faults>>
               ELSE \/ /\ config' = <<width, height>>
                       /\ configured' = TRUE
                       /\ kPc' = "start_alloc"
                       /\ UNCHANGED <<kIdx, kOp, kRet, faults>>
                    \/ /\ InjectFault
                       /\ KReturn("start", -1)
                       /\ UNCHANGED <<configured, config>>
    /\ UNCHANGED <<width, height, started, allocator, requests,
                   completed_requests, running, hwVars, cbVars, conVars,
                   pushed, lastFrame, stopWhileWaiting>>

\* libcamera_start_with_params: allocator and one request per buffer,
\* created only when there is no allocator.
libcamera_start_alloc ==
    /\ kPc = "start_alloc" /\ ~crashed
    /\ IF allocator
       THEN /\ kPc' = "start_hw"
            /\ UNCHANGED <<allocator, requests, bufData, faults, kIdx, kOp,
                           kRet>>
       ELSE \/ /\ allocator' = TRUE
               /\ requests' = [i \in 1..NumBuffers |-> Req(i, nStarts)]
               /\ bufData' = [s \in Slots |-> 0]
               /\ kPc' = "start_hw"
               /\ UNCHANGED <<faults, kIdx, kOp, kRet>>
            \/ \* allocate(stream) < 0: the allocator is deleted again
               /\ InjectFault
               /\ KReturn("start", -1)
               /\ UNCHANGED <<allocator, requests, bufData>>
            \/ \* createRequest / addBuffer fails for buffer k + 1
               /\ InjectFault
               /\ \E k \in 0..(NumBuffers - 1) :
                      requests' = [i \in 1..k |-> Req(i, nStarts)]
               /\ allocator' = TRUE
               /\ bufData' = [s \in Slots |-> 0]
               /\ KReturn("start", -1)
    /\ UNCHANGED <<camVars, config, completed_requests, running, hwRunning,
                   hwQueued, nCompl, cbVars, conVars, pushed, lastFrame,
                   nStarts, stopWhileWaiting>>

\* libcamera_start_with_params: camera->start(&controls)
libcamera_start_hw ==
    /\ kPc = "start_hw" /\ ~crashed
    /\ \/ /\ ~hwRunning
          /\ hwRunning' = TRUE
          /\ kPc' = "start_run"
          /\ UNCHANGED <<kIdx, kOp, kRet, faults>>
       \/ \* a camera that is already running refuses to start
          /\ hwRunning
          /\ KReturn("start", -1)
          /\ UNCHANGED <<hwRunning, faults>>
       \/ /\ ~hwRunning
          /\ InjectFault
          /\ KReturn("start", -1)
          /\ UNCHANGED hwRunning
    /\ UNCHANGED <<camVars, ctxVars, hwQueued, bufData, nCompl, cbVars,
                   conVars, pushed, lastFrame, nStarts, stopWhileWaiting>>

\* libcamera_start_with_params: ctx->running = true
libcamera_start_run ==
    /\ kPc = "start_run" /\ ~crashed
    /\ running' = TRUE
    /\ kPc' = "start_queue" /\ kIdx' = 1
    /\ UNCHANGED <<camVars, config, allocator, requests, completed_requests,
                   hwVars, cbVars, conVars, kOp, kRet, histVars>>

\* libcamera_start_with_params: the loop queueing every request, and the
\* return into camera_start, which sets started.
libcamera_start_queue ==
    /\ kPc = "start_queue" /\ ~crashed
    /\ IF kIdx <= Len(requests)
       THEN \/ /\ hwQueued' = hwQueued \cup {requests[kIdx]}
               /\ kIdx' = kIdx + 1
               /\ UNCHANGED <<kPc, kOp, kRet, running, started, faults>>
            \/ /\ InjectFault
               /\ running' = FALSE
               /\ KReturn("start", -1)
               /\ UNCHANGED <<hwQueued, started>>
       ELSE /\ started' = TRUE
            /\ KReturn("start", 0)
            /\ UNCHANGED <<hwQueued, running, faults>>
    /\ UNCHANGED <<width, height, configured, config, allocator, requests,
                   completed_requests, hwRunning, bufData, nCompl, cbVars,
                   conVars, pushed, lastFrame, nStarts, stopWhileWaiting>>

\* camera_stop without its test of started.
camera_stop_Unguarded ==
    /\ kPc = "idle" /\ ~crashed
    /\ running' = FALSE
    /\ kPc' = "stop_hw"
    /\ stopWhileWaiting' = (cPc = "wait")
    /\ UNCHANGED <<kIdx, kOp, kRet>>
    /\ UNCHANGED <<camVars, config, allocator, requests, completed_requests,
                   hwVars, cbVars, conVars, pushed, lastFrame, nStarts,
                   faults>>

\* camera.c: void camera_stop(ctx), and the first statement of
\* libcamera_stop: ctx->running = false.
camera_stop ==
    /\ kPc = "idle" /\ ~crashed
    /\ IF started
       THEN /\ running' = FALSE
            /\ kPc' = "stop_hw"
            /\ stopWhileWaiting' = (cPc = "wait")
            /\ UNCHANGED <<kIdx, kOp, kRet>>
       ELSE /\ KReturn("stop_noop", 0)
            /\ UNCHANGED <<running, stopWhileWaiting>>
    /\ UNCHANGED <<camVars, config, allocator, requests, completed_requests,
                   hwVars, cbVars, conVars, pushed, lastFrame, nStarts,
                   faults>>

\* libcamera_stop: the grace sleep and camera->stop().  The camera cancels
\* what is still queued (HwCancel) on its completion thread and returns
\* when nothing is left.
libcamera_stop_hw ==
    /\ kPc = "stop_hw" /\ ~crashed
    /\ cbPc = "idle" /\ hwQueued = {}
    /\ hwRunning' = FALSE
    /\ kPc' = "stop_drain"
    /\ UNCHANGED <<camVars, ctxVars, hwQueued, bufData, nCompl, cbVars,
                   conVars, kIdx, kOp, kRet, histVars>>

\* libcamera_stop that leaves completed_requests as it is.
libcamera_stop_drain_Skipped ==
    /\ kPc = "stop_drain" /\ ~crashed
    /\ kPc' = "stop_clear"
    /\ UNCHANGED <<camVars, ctxVars, hwVars, cbVars, conVars, kIdx, kOp,
                   kRet, histVars>>

\* libcamera_stop: empty completed_requests under request_mutex
libcamera_stop_drain ==
    /\ kPc = "stop_drain" /\ ~crashed
    /\ completed_requests' = <<>>
    /\ kPc' = "stop_clear"
    /\ UNCHANGED <<camVars, config, allocator, requests, running, hwVars,
                   cbVars, conVars, kIdx, kOp, kRet, histVars>>

\* libcamera_stop: requests.clear(), delete allocator; camera_stop then
\* clears started.
libcamera_stop_clear ==
    /\ kPc = "stop_clear" /\ ~crashed
    /\ requests' = <<>>
    /\ allocator' = FALSE
    /\ started' = FALSE
    /\ KReturn("stop", 0)
    /\ stopWhileWaiting' = FALSE
    /\ UNCHANGED <<width, height, configured, config, completed_requests,
                   running, hwVars, cbVars, conVars, pushed, lastFrame,
                   nStarts, faults>>


\* --------------------------------------------- hardware completion thread
CbEnter(r, status) ==
    /\ cbPc' = "push" /\ cbReq' = r /\ cbStatus' = status

\* The camera finishes a queued request: the frame is in its buffer and
\* requestCompleted is emitted.  request_completed_handler is entered and
\* takes g_context_mutex, which it holds until it returns.
HwComplete(r) ==
    /\ ~crashed
    /\ hwRunning /\ r \in hwQueued /\ cbPc = "idle" /\ connected
    /\ nCompl < MaxCompletions
    /\ nCompl' = nCompl + 1
    /\ bufData' = [bufData EXCEPT ![r.slot] = nCompl + 1]
    /\ hwQueued' = hwQueued \ {r}
    /\ CbEnter(r, "RequestComplete")
    /\ UNCHANGED <<camVars, ctxVars, hwRunning, conVars, ctlVars, histVars>>

\* camera->stop() hands back a request that is still queued as cancelled.
HwCancel(r) ==
    /\ ~crashed
    /\ kPc = "stop_hw" /\ hwRunning /\ r \in hwQueued /\ cbPc = "idle"
    /\ connected
    /\ hwQueued' = hwQueued \ {r}
    /\ CbEnter(r, "RequestCancelled")
    /\ UNCHANGED <<camVars, ctxVars, hwRunning, bufData, nCompl, conVars,
                   ctlVars, histVars>>

\* A handler that queues whatever the camera hands back.
StatusGood_Any(status) == TRUE
\* Add to queue for processing only if status is good.
StatusGood(status) == status = "RequestComplete"

\* request_completed_handler: the test of g_active_context, and the block
\* under the request_mutex of the active context
request_completed_handler_push ==
    /\ cbPc = "push" /\ ~crashed
    /\ IF g_active_context = "none"
       THEN /\ cbPc' = "idle" /\ cbReq' = NoRequest /\ cbStatus' = "None"
            /\ UNCHANGED <<completed_requests, pushed, fifoB>>
       ELSE /\ cbPc' = "check"
            /\ UNCHANGED <<cbReq, cbStatus>>
            /\ IF ~StatusGood(cbStatus)
               THEN UNCHANGED <<completed_requests, pushed, fifoB>>
               ELSE IF g_active_context = "A"
                    THEN /\ completed_requests' =
                               Append(completed_requests, cbReq)
                         /\ pushed' = Append(pushed, bufData[cbReq.slot])
                         /\ UNCHANGED fifoB
                    ELSE /\ fifoB' = Append(fifoB, cbReq)
                         /\ UNCHANGED <<completed_requests, pushed>>
    /\ UNCHANGED <<camVars, config, allocator, requests, running, hwVars,
                   conVars, ctlVars, lastFrame, nStarts, faults,
                   stopWhileWaiting>>
    /\ UNCHANGED <<routeVars, bState, runningB, bQueueCalls>>

\* g_active_context->running
ActiveRunning == IF g_active_context = "A" THEN running ELSE runningB

\* request_completed_handler: the test of running and of the status,
\* made after the request_mutex is released
request_completed_handler_check ==
    /\ cbPc = "check" /\ ~crashed
    /\ IF ActiveRunning /\ cbStatus = "RequestComplete"
       THEN cbPc' = "requeue" /\ UNCHANGED <<cbReq, cbStatus>>
       ELSE cbPc' = "idle" /\ cbReq' = NoRequest /\ cbStatus' = "None"
    /\ UNCHANGED <<camVars, ctxVars, hwVars, conVars, ctlVars, histVars>>

\* request_completed_handler: request->reuse();
\* g_active_context->camera->queueRequest().  A camera queues only a
\* request that it created.
request_completed_handler_requeue ==
    /\ cbPc = "requeue" /\ ~crashed
    /\ IF g_active_context = "A"
       THEN /\ hwQueued' =
                  IF hwRunning THEN hwQueued \cup {cbReq} ELSE hwQueued
            /\ UNCHANGED bQueueCalls
       ELSE /\ bQueueCalls' = bQueueCalls \cup {cbReq}
            /\ UNCHANGED hwQueued
    /\ cbPc' = "idle" /\ cbReq' = NoRequest /\ cbStatus' = "None"
    /\ UNCHANGED <<camVars, ctxVars, hwRunning, bufData, nCompl, conVars,
                   ctlVars, histVars>>
    /\ UNCHANGED <<routeVars, bState, runningB, fifoB>>

\* --------------------------------------------------------------- consumer
CReturn(ret) ==
    /\ cPc' = "idle" /\ elapsed' = 0 /\ held' = NoRequest /\ cRet' = ret

\* camera_take_picture without its test of started.
camera_take_picture_Unguarded ==
    /\ cPc = "idle" /\ ~crashed
    /\ out_buffer' = NULL
    /\ stopWhileWaiting' = FALSE
    /\ IF ~allocator
       THEN CReturn("CaptureFailure")
       ELSE /\ cPc' = "wait" /\ elapsed' = 0 /\ cRet' = "None"
            /\ UNCHANGED held
    /\ UNCHANGED <<camVars, ctxVars, hwVars, cbVars, ctlVars, pushed,
                   lastFrame, nStarts, faults, outVars>>

\* camera_take_picture, and libcamera_capture_frame up to the wait.  The
\* caller passes a buffer pointer it has set to NULL.
camera_take_picture ==
    /\ cPc = "idle" /\ ~crashed
    /\ out_buffer' = NULL
    /\ stopWhileWaiting' = FALSE
    /\ IF ~started
       THEN CReturn("NotStarted")
       ELSE IF ~allocator
            THEN CReturn("CaptureFailure")
            ELSE /\ cPc' = "wait" /\ elapsed' = 0 /\ cRet' = "None"
                 /\ UNCHANGED held
    /\ UNCHANGED <<camVars, ctxVars, hwVars, cbVars, ctlVars, pushed,
                   lastFrame, nStarts, faults, outVars>>

\* Time passes while the consumer is blocked in wait_for.
Tick ==
    /\ cPc = "wait" /\ ~crashed
    /\ elapsed < TimeoutTicks
    /\ elapsed' = elapsed + 1
    /\ UNCHANGED <<camVars, ctxVars, hwVars, cbVars, cPc, held, cRet,
                   out_buffer, outVars, ctlVars, histVars>>

\* wait_for that gives up at once / that has no deadline.
WaitTimedOut_Early == TRUE
WaitTimedOut_Never == FALSE

\* wait_for(lock, milliseconds(timeout_ms), pred): the deadline has passed.
WaitTimedOut == elapsed >= TimeoutTicks

\* libcamera_capture_frame: request_cv.wait_for with its predicate, and
\* the pop that follows it under the same lock.
libcamera_capture_frame_wait ==
    /\ cPc = "wait" /\ ~crashed
    /\ IF completed_requests # <<>>
       THEN /\ held' = Head(completed_requests)
            /\ completed_requests' = Tail(completed_requests)
            /\ cPc' = "copy"
            /\ UNCHANGED <<elapsed, cRet>>
       ELSE /\ WaitTimedOut
            /\ CReturn("FrameTimeout")
            /\ UNCHANGED completed_requests
    /\ UNCHANGED <<camVars, config, allocator, requests, running, hwVars,
                   cbVars, out_buffer, outVars, ctlVars, histVars>>

\* The request and its buffer still exist (not released by libcamera_stop).
Alive(r) == allocator /\ r \in Range(requests)

\* What memcpy reads from the buffer of request r.
CopiedData(r) ==
    IF r \in hwQueued
    THEN {bufData[r.slot], Torn}
    ELSE {bufData[r.slot]}

\* libcamera_capture_frame: *out_width and *out_height are read from the
\* stream configuration, whatever size the caller asked for last.
WriteDims ==
    /\ out_width' = config[1]
    /\ out_height' = config[2]

\* libcamera_capture_frame: data_size = (*out_width) * (*out_height) * 3
DataSize(w, h) == w * h * 3

\* libcamera_capture_frame after the unlock: findBuffer, the dimensions,
\* mmap, malloc, memcpy, munmap.
libcamera_capture_frame_copy ==
    /\ cPc = "copy" /\ ~crashed
    /\ IF Alive(held)
       THEN \/ \E d \in CopiedData(held) :
                  /\ WriteDims
                  /\ out_buffer' = Frame(d)
                  /\ out_size' = DataSize(config[1], config[2])
                  /\ lastFrame' = d
                  /\ CReturn("Ok")
                  /\ UNCHANGED faults
            \/ \* mmap fails: *out_buffer is not written
               /\ InjectFault
               /\ WriteDims
               /\ CReturn("CaptureFailure")
               /\ UNCHANGED <<out_buffer, out_size, lastFrame>>
            \/ \* malloc fails: *out_buffer = NULL
               /\ InjectFault
               /\ WriteDims
               /\ out_buffer' = NULL
               /\ CReturn("CaptureFailure")
               /\ UNCHANGED <<out_size, lastFrame>>
       ELSE \* the request was destroyed by libcamera_stop: use after free
            \/ /\ WriteDims
               /\ out_buffer' = Frame(Torn)
               /\ out_size' = DataSize(config[1], config[2])
               /\ lastFrame' = Torn
               /\ CReturn("Ok")
               /\ UNCHANGED faults
            \/ /\ CReturn("CaptureFailure")
               /\ UNCHANGED <<out_buffer, outVars, lastFrame, faults>>
            \/ /\ CReturn("Crash")
               /\ UNCHANGED <<out_buffer, outVars, lastFrame, faults>>
    /\ UNCHANGED <<camVars, ctxVars, hwVars, cbVars, ctlVars, pushed,
                   nStarts, stopWhileWaiting>>

\* ------------------------------------------------------------------ Next
Next ==
    \/ \E d \in SizeChoices : camera_set_size(d) /\ UNCHANGED auxVars
    \/ camera_start /\ UNCHANGED auxVars
    \/ libcamera_start_alloc /\ UNCHANGED auxVars
    \/ libcamera_start_hw /\ UNCHANGED auxVars
    \/ libcamera_start_run /\ UNCHANGED auxVars
    \/ libcamera_start_queue /\ UNCHANGED auxVars
    \/ camera_stop /\ UNCHANGED auxVars
    \/ libcamera_stop_hw /\ UNCHANGED auxVars
    \/ libcamera_stop_drain /\ UNCHANGED auxVars
    \/ libcamera_stop_clear /\ UNCHANGED auxVars
    \/ \E r \in hwQueued : HwComplete(r) /\ UNCHANGED auxVars
    \/ \E r \in hwQueued : HwCancel(r) /\ UNCHANGED auxVars
    \/ request_completed_handler_push /\ UNCHANGED auxVars
    \/ request_completed_handler_check /\ UNCHANGED auxVars
    \/ request_completed_handler_requeue /\ UNCHANGED auxVars
    \/ camera_take_picture /\ UNCHANGED auxVars
    \/ Tick /\ UNCHANGED auxVars
    \/ libcamera_capture_frame_wait /\ UNCHANGED auxVars
    \/ libcamera_capture_frame_copy /\ UNCHANGED auxVars

Spec == Init /\ [][Next]_vars

\* The clock advances and a thread blocked in wait_for is scheduled when
\* its predicate holds or its deadline has passed.
FairSpec ==
    /\ Spec
    /\ WF_vars(Tick /\ UNCHANGED auxVars)
    /\ WF_vars(libcamera_capture_frame_wait /\ UNCHANGED auxVars)

TypeOK ==
    /\ started \in BOOLEAN /\ configured \in BOOLEAN
    /\ allocator \in BOOLEAN /\ running \in BOOLEAN /\ hwRunning \in BOOLEAN
    /\ hwQueued \subseteq RequestIds
    /\ Range(requests) \subseteq RequestIds
    /\ Range(completed_requests) \subseteq RequestIds
    /\ nCompl \in 0..MaxCompletions
    /\ elapsed \in 0..TimeoutTicks
    /\ cPc \in {"idle", "wait", "copy"}
    /\ cbPc \in {"idle", "push", "check", "requeue"}


\* ============================================================ buffer slots
\* The state of a buffer slot, read off the places that can hold its
\* request: the camera, the completion FIFO, the consumer's local.
Queued(s) == \E r \in hwQueued : r.slot = s
Completed(s) ==
    \E i \in DOMAIN completed_requests : completed_requests[i].slot = s
ConsumerHeld(s) == held.slot = s
Idle(s) == ~Queued(s) /\ ~Completed(s) /\ ~ConsumerHeld(s)

StatesOf(s) ==
    {n \in {"Idle", "Queued", "Completed", "ConsumerHeld"} :
        \/ n = "Idle" /\ Idle(s)
        \/ n = "Queued" /\ Queued(s)
        \/ n = "Completed" /\ Completed(s)
        \/ n = "ConsumerHeld" /\ ConsumerHeld(s)}

\* C1: every buffer slot is in exactly one of Idle, Queued, Completed and
\* ConsumerHeld, so that the four populations add up to the pool capacity.
C1_SlotConservation ==
    /\ \A s \in Slots : Cardinality(StatesOf(s)) = 1
    /\ Cardinality({s \in Slots : Idle(s)}) + Cardinality(hwQueued)
         + Len(completed_requests) + (IF held = NoRequest THEN 0 ELSE 1)
       = NumBuffers

\* C2: the completion FIFO never holds more entries than the pool has
\* buffers.
C2_FifoBounded == Len(completed_requests) <= NumBuffers

\* C3: every frame capture returns is a pushed completion, and it is a later
\* completion than the frame returned before it (completion order, nothing
\* reordered, nothing delivered twice).
C3_CompletionOrder ==
    [][(cPc = "copy" /\ cRet' = "Ok") =>
           \E d \in Range(pushed) :
               out_buffer' = Frame(d) /\ d > lastFrame]_vars


\* ================================================================ capture
\* C4: a capture_next whose wait ends on an empty FIFO returns
\* FrameTimeout, only once the timeout has elapsed, delivers no frame and
\* leaves the FIFO, the slots and the caller's buffer pointer as they were.
C4_TimeoutContract ==
    [][(cPc = "wait" /\ cPc' # "wait" /\ completed_requests = <<>>) =>
           /\ cRet' = "FrameTimeout"
           /\ elapsed >= TimeoutTicks
           /\ out_buffer' = NULL
           /\ UNCHANGED <<completed_requests, hwQueued, held, requests,
                          allocator, bufData, out_buffer, lastFrame>>]_vars

\* A started camera that never completed a request timed a capture out.
C4_Witness == cRet = "FrameTimeout" /\ started /\ nCompl = 0

StopPcs == {"stop_hw", "stop_drain", "stop_clear"}

\* C5: a consumer that is blocked in capture_next while stop() runs leaves
\* its wait eventually.
C5_StopReleasesConsumer ==
    (cPc = "wait" /\ kPc \in StopPcs) ~> (cPc # "wait")

\* A consumer that was waiting when stop() began has returned.
C5_Witness ==
    /\ stopWhileWaiting /\ kPc \in StopPcs
    /\ cPc = "idle" /\ cRet = "FrameTimeout"

\* ============================================================= start/stop
\* The state a successful start establishes: the pool and one request per
\* buffer slot, made by this start; the running flag; every request
\* submitted to the camera (or in the callback that resubmits it); nothing
\* in the FIFO that this start's requests did not put there.
FreshlyStarted ==
    /\ allocator /\ running /\ hwRunning
    /\ requests = [i \in 1..NumBuffers |-> Req(i, nStarts)]
    /\ \A r \in Range(requests) : r \in hwQueued \/ cbReq = r
    /\ Range(completed_requests) \subseteq Range(requests)

\* C6: when no call has failed, a started manager is in the state of a
\* fresh start, whether it was started once or stopped and started again.
C6_RestartIdempotence ==
    (started /\ kPc = "idle" /\ faults = 0) => FreshlyStarted

\* After start, stop, start, a capture returned a frame that the restarted
\* pool produced.
C6_Witness ==
    /\ started /\ kPc = "idle" /\ faults = 0 /\ nStarts = 2
    /\ cRet = "Ok" /\ out_buffer # NULL
    /\ \E s \in Slots : out_buffer = Frame(bufData[s]) /\ bufData[s] >= 1

\* C7: start on a started manager returns success and changes nothing.
C7_StartIdempotent ==
    [][(camera_start /\ started) =>
           /\ kRet' = 0 /\ kPc' = "idle"
           /\ UNCHANGED <<camVars, ctxVars, hwVars, cbVars, conVars,
                          nStarts>>]_vars

C7_Witness ==
    kOp = "start_already" /\ kPc = "idle" /\ started /\ pushed # <<>>

\* C8: stop on a manager that is not started succeeds and changes nothing;
\* a completed stop leaves the manager not started, so a second stop is
\* that case.
C8_StopIdempotent ==
    /\ []((kOp = "stop" /\ kPc = "idle") => ~started)
    /\ [][(camera_stop /\ ~started) =>
              /\ kRet' = 0 /\ kPc' = "idle"
              /\ UNCHANGED <<camVars, ctxVars, hwVars, cbVars, conVars,
                             nStarts>>]_vars

\* stop was called on a manager that had already been stopped.
C8_Witness ==
    kOp = "stop_noop" /\ kPc = "idle" /\ pushed # <<>> /\ ~hwRunning

\* C9: configure fails on a started manager and leaves the size and the
\* started state alone; on a manager that is not started it succeeds and
\* records the size.
C9_ConfigureAfterStart ==
    [][\A d \in SizeChoices :
           camera_set_size(d) =>
               IF started
               THEN /\ kRet' = -1
                    /\ UNCHANGED <<width, height, config, configured,
                                   started>>
               ELSE /\ kRet' = 0
                    /\ width' = d[1] /\ height' = d[2]
                    /\ UNCHANGED started]_vars

\* configure was refused on a started manager.
C9_Witness ==
    /\ kOp = "set_size" /\ kRet = -1 /\ kPc = "idle" /\ started
    /\ width = 640 /\ height = 480

\* C10: a capture on a manager that is not started fails, delivers no frame
\* and leaves the caller's buffer pointer NULL.
C10_CaptureNotStarted ==
    [][(camera_take_picture /\ ~started) =>
           /\ cPc' = "idle" /\ cRet' \in {"NotStarted", "CaptureFailure"}
           /\ out_buffer' = NULL
           /\ UNCHANGED <<completed_requests, held, lastFrame>>]_vars

\* A capture was refused after the manager had been stopped.
C10_Witness ==
    cRet = "NotStarted" /\ out_buffer = NULL /\ kOp = "stop" /\ ~started

\* ========================================================= capture size
\* C11: a capture that succeeds on a started manager returns the width and
\* height of the most recent accepted set_size (the size the manager holds,
\* which set_size alone changes and only while the manager is not started)
\* and size = width * height * 3, also when set_size was called between a
\* stop and the start that followed.
C11_CaptureSize ==
    [][(cPc = "copy" /\ cRet' = "Ok" /\ started /\ kPc = "idle") =>
           /\ out_width' = width /\ out_height' = height
           /\ out_size' = width * height * 3]_vars

\* ====================================================== unified interface
\* Sizes handed to camera_interface_set_size: one valid size and the
\* invalid ones of the interface's conformance test.
InterfaceSizes == {<<320, 240>>, <<0, 480>>, <<640, 0>>, <<-640, 480>>}

CameraTypes == {"IMX477", "EMULATED"}

ValidSize(d) == d[1] > 0 /\ d[2] > 0

\* The emulated backend: set_size refuses a started camera and a size that
\* is not positive.
emulated_camera_set_size(d) ==
    /\ kPc = "idle"
    /\ IF emuStarted \/ ~ValidSize(d)
       THEN /\ KReturn("set_size", -1)
            /\ UNCHANGED <<emuWidth, emuHeight>>
       ELSE /\ emuWidth' = d[1] /\ emuHeight' = d[2]
            /\ KReturn("set_size", 0)
    /\ UNCHANGED emuStarted

emulated_camera_start ==
    /\ kPc = "idle"
    /\ emuStarted' = TRUE
    /\ KReturn(IF emuStarted THEN "start_already" ELSE "start", 0)
    /\ UNCHANGED <<emuWidth, emuHeight>>

emulated_camera_stop ==
    /\ kPc = "idle"
    /\ emuStarted' = FALSE
    /\ KReturn(IF emuStarted THEN "stop" ELSE "stop_noop", 0)
    /\ UNCHANGED <<emuWidth, emuHeight>>

\* State that is neither the interface's nor a backend's.
NotInterface == <<routeVars, ctxBVars, otherVars>>

\* What a call into the emulated backend leaves alone.
EmulatedOnly ==
    UNCHANGED <<camVars, ctxVars, hwVars, cbVars, conVars, histVars>>

\* camera_interface.c: int camera_interface_set_size(camera, width, height)
camera_interface_set_size(d) ==
    /\ ifWidth' = d[1] /\ ifHeight' = d[2]
    /\ UNCHANGED <<camType, NotInterface>>
    /\ IF camType = "IMX477"
       THEN camera_set_size(d) /\ UNCHANGED emuVars
       ELSE emulated_camera_set_size(d) /\ EmulatedOnly

\* camera_interface.c: int camera_interface_start(camera)
camera_interface_start ==
    /\ UNCHANGED <<ifaceVars, NotInterface>>
    /\ IF camType = "IMX477"
       THEN camera_start /\ UNCHANGED emuVars
       ELSE emulated_camera_start /\ EmulatedOnly

\* camera_interface.c: int camera_interface_stop(camera)
camera_interface_stop ==
    /\ UNCHANGED <<ifaceVars, NotInterface>>
    /\ IF camType = "IMX477"
       THEN camera_stop /\ UNCHANGED emuVars
       ELSE emulated_camera_stop /\ EmulatedOnly

\* A camera of either type behind the interface; its caller only sets the
\* size, starts and stops, and never captures.
InterfaceSpecInit ==
    /\ CameraInit /\ ContextInit /\ VisionInit(<<>>, Zeroed)
    /\ ParametersInit(NULL) /\ MonitorIdle
    /\ \E type \in CameraTypes : InterfaceInit(type)

InterfaceNext ==
    \/ \E d \in InterfaceSizes : camera_interface_set_size(d)
    \/ camera_interface_start
    \/ camera_interface_stop
    \/ libcamera_start_alloc /\ UNCHANGED auxVars
    \/ libcamera_start_hw /\ UNCHANGED auxVars
    \/ libcamera_start_run /\ UNCHANGED auxVars
    \/ libcamera_start_queue /\ UNCHANGED auxVars
    \/ libcamera_stop_hw /\ UNCHANGED auxVars
    \/ libcamera_stop_drain /\ UNCHANGED auxVars
    \/ libcamera_stop_clear /\ UNCHANGED auxVars
    \/ \E r \in hwQueued : HwComplete(r) /\ UNCHANGED auxVars
    \/ \E r \in hwQueued : HwCancel(r) /\ UNCHANGED auxVars
    \/ request_completed_handler_push /\ UNCHANGED auxVars
    \/ request_completed_handler_check /\ UNCHANGED auxVars
    \/ request_completed_handler_requeue /\ UNCHANGED auxVars

InterfaceSpec == InterfaceSpecInit /\ [][InterfaceNext]_vars

\* C12: set_size with a zero or negative width or height fails, whatever
\* the backend behind the interface and whatever its lifecycle state.
C12_InvalidSizeRefused ==
    [][\A d \in InterfaceSizes :
           (camera_interface_set_size(d) /\ ~ValidSize(d)) => kRet' # 0]_vars

\* ======================================================= contexts, close
NotRoute == <<ifaceVars, emuVars, ctxBVars, otherVars>>

\* camera_cleanup -> libcamera_cleanup: the context is unregistered under
\* g_context_mutex if it is the active one.
libcamera_cleanup_unregister ==
    /\ kPc = "idle" /\ ~crashed
    /\ cbPc = "idle"
    /\ g_active_context' =
           IF g_active_context = "A" THEN "none" ELSE g_active_context
    /\ kPc' = "cleanup_disconnect"
    /\ kOp' = IF started THEN "cleanup_started" ELSE "cleanup"
    /\ UNCHANGED <<kIdx, kRet, connected, released>>
    /\ UNCHANGED <<camVars, ctxVars, hwVars, cbVars, conVars, histVars,
                   NotRoute>>

\* libcamera_cleanup that releases a camera it never stops.
libcamera_cleanup_disconnect_NoStop ==
    /\ kPc = "cleanup_disconnect" /\ ~crashed
    /\ connected' = FALSE
    /\ kPc' = "cleanup_drain"
    /\ UNCHANGED <<kIdx, kOp, kRet, g_active_context, released, running>>
    /\ UNCHANGED <<camVars, config, allocator, requests, completed_requests,
                   hwVars, cbVars, conVars, histVars, NotRoute>>

\* libcamera_cleanup: requestCompleted.disconnect(), and the test of
\* running that decides whether the camera is stopped.
libcamera_cleanup_disconnect ==
    /\ kPc = "cleanup_disconnect" /\ ~crashed
    /\ connected' = FALSE
    /\ IF running
       THEN running' = FALSE /\ kPc' = "cleanup_stop"
       ELSE kPc' = "cleanup_drain" /\ UNCHANGED running
    /\ UNCHANGED <<kIdx, kOp, kRet, g_active_context, released>>
    /\ UNCHANGED <<camVars, config, allocator, requests, completed_requests,
                   hwVars, cbVars, conVars, histVars, NotRoute>>

\* libcamera_cleanup: the grace sleep and camera->stop().  The handler is
\* disconnected, so what the camera hands back reaches nobody.
libcamera_cleanup_stop ==
    /\ kPc = "cleanup_stop" /\ ~crashed
    /\ cbPc = "idle"
    /\ hwQueued' = {} /\ hwRunning' = FALSE
    /\ kPc' = "cleanup_drain"
    /\ UNCHANGED <<kIdx, kOp, kRet, routeVars, bufData, nCompl>>
    /\ UNCHANGED <<camVars, ctxVars, cbVars, conVars, histVars, NotRoute>>

\* libcamera_cleanup: empty completed_requests under request_mutex
libcamera_cleanup_drain ==
    /\ kPc = "cleanup_drain" /\ ~crashed
    /\ completed_requests' = <<>>
    /\ kPc' = "cleanup_clear"
    /\ UNCHANGED <<kIdx, kOp, kRet, routeVars>>
    /\ UNCHANGED <<camVars, config, allocator, requests, running, hwVars,
                   cbVars, conVars, histVars, NotRoute>>

\* libcamera_cleanup: requests.clear(), delete allocator
libcamera_cleanup_clear ==
    /\ kPc = "cleanup_clear" /\ ~crashed
    /\ requests' = <<>> /\ allocator' = FALSE
    /\ kPc' = "cleanup_release"
    /\ UNCHANGED <<kIdx, kOp, kRet, routeVars>>
    /\ UNCHANGED <<camVars, config, completed_requests, running, hwVars,
                   cbVars, conVars, histVars, NotRoute>>

\* libcamera_cleanup: camera->release() (refused by a camera that is
\* running), camera.reset(), camera_manager->stop(), delete ctx; then
\* camera_cleanup frees the CameraContext.  Nothing can be called on the
\* context any more.
libcamera_cleanup_release ==
    /\ kPc = "cleanup_release" /\ ~crashed
    /\ released' = IF hwRunning THEN released ELSE released + 1
    /\ kPc' = "closed"
    /\ UNCHANGED <<kIdx, kOp, kRet, g_active_context, connected>>
    /\ UNCHANGED <<camVars, ctxVars, hwVars, cbVars, conVars, histVars,
                   NotRoute>>

\* --- the second context B
NotB == <<cameraVars, ifaceVars, emuVars, otherVars>>

\* libcamera_open_camera(B, index of a second camera)
libcamera_open_camera_B ==
    /\ bState = "init" /\ cbPc = "idle"
    /\ g_active_context' = "B"
    /\ bState' = "opened"
    /\ UNCHANGED <<connected, released, runningB, fifoB, bQueueCalls, NotB>>

\* libcamera_start_with_params(B): ctx->running = true
libcamera_start_B ==
    /\ bState = "opened" /\ ~runningB
    /\ runningB' = TRUE
    /\ UNCHANGED <<routeVars, bState, fifoB, bQueueCalls, NotB>>

\* libcamera_stop(B): ctx->running = false; completed_requests drained
libcamera_stop_B ==
    /\ bState = "opened" /\ runningB
    /\ runningB' = FALSE
    /\ fifoB' = <<>>
    /\ UNCHANGED <<routeVars, bState, bQueueCalls, NotB>>

\* libcamera_cleanup(B)
libcamera_cleanup_B ==
    /\ bState = "opened" /\ cbPc = "idle"
    /\ g_active_context' =
           IF g_active_context = "B" THEN "none" ELSE g_active_context
    /\ runningB' = FALSE /\ fifoB' = <<>>
    /\ bState' = "closed"
    /\ UNCHANGED <<connected, released, bQueueCalls, NotB>>

\* Two contexts in one process; context A is started, stopped and closed
\* by its controller while its camera completes requests; nobody
\* captures.
ContextNext ==
    \/ camera_start /\ UNCHANGED auxVars
    \/ libcamera_start_alloc /\ UNCHANGED auxVars
    \/ libcamera_start_hw /\ UNCHANGED auxVars
    \/ libcamera_start_run /\ UNCHANGED auxVars
    \/ libcamera_start_queue /\ UNCHANGED auxVars
    \/ camera_stop /\ UNCHANGED auxVars
    \/ libcamera_stop_hw /\ UNCHANGED auxVars
    \/ libcamera_stop_drain /\ UNCHANGED auxVars
    \/ libcamera_stop_clear /\ UNCHANGED auxVars
    \/ \E r \in hwQueued : HwComplete(r) /\ UNCHANGED auxVars
    \/ \E r \in hwQueued : HwCancel(r) /\ UNCHANGED auxVars
    \/ request_completed_handler_push
           /\ UNCHANGED <<ifaceVars, emuVars, otherVars>>
    \/ request_completed_handler_check /\ UNCHANGED auxVars
    \/ request_completed_handler_requeue
           /\ UNCHANGED <<ifaceVars, emuVars, otherVars>>
    \/ libcamera_cleanup_unregister
    \/ libcamera_cleanup_disconnect
    \/ libcamera_cleanup_stop
    \/ libcamera_cleanup_drain
    \/ libcamera_cleanup_clear
    \/ libcamera_cleanup_release
    \/ libcamera_open_camera_B
    \/ libcamera_start_B
    \/ libcamera_stop_B
    \/ libcamera_cleanup_B

ContextSpec == Init /\ [][ContextNext]_vars

\* C13: a completion of a request of context A's camera is pushed only
\* into A's FIFO and resubmitted only to A's camera: the FIFO of another
\* context never holds it and the camera of another context is never
\* handed it.
C13_CompletionsStayInContext ==
    \A r \in RequestIds : r \notin Range(fifoB) /\ r \notin bQueueCalls

MaxDetections == 4   \* markers in one DetectionResult

\* Known real-world positions of the fixed tags, mm: <<id, x, y>>.
tag_irl ==
    << <<20, 600, 600>>, <<21, 600, 2400>>,
       <<22, 1400, 600>>, <<23, 1400, 2400>> >>

\* Field corners in real-world coordinates (2000mm x 3000mm).
field_corners == << <<0, 0>>, <<2000, 0>>, <<2000, 3000>>, <<0, 3000>> >>

\* A configuration for which every id is one of the game's.
rod_config_is_valid_marker_id_Any(id) == TRUE
\* Robots (1-10), fixed markers (20-23), blue, empty and yellow box.
rod_config_is_valid_marker_id(id) ==
    \/ id >= 1 /\ id <= 10
    \/ id >= 20 /\ id <= 23
    \/ id = 36
    \/ id = 41
    \/ id = 47

\* Corners of an upright marker and of one turned a quarter, centred on
\* <<cx, cy>>; corner 0 to corner 1 is the marker's top edge.
Upright(cx, cy) ==
    << <<cx - 2, cy - 2>>, <<cx + 2, cy - 2>>,
       <<cx + 2, cy + 2>>, <<cx - 2, cy + 2>> >>
Turned(cx, cy) ==
    << <<cx + 2, cy - 2>>, <<cx + 2, cy + 2>>,
       <<cx - 2, cy + 2>>, <<cx - 2, cy - 2>> >>

\* What the detector can report in a frame of a field imaged at 1 pixel
\* per 100 mm through a lens that shifts every point by one pixel: the
\* four fixed tags where they stand, a second reading of tag 20 somewhere
\* else, a box, and a marker whose id is none of the game's.
FixedTag(j) ==
    [id |-> tag_irl[j][1],
     corners |-> Upright(tag_irl[j][2] \div 100 + 1,
                         tag_irl[j][3] \div 100 + 1)]
Box == [id |-> 41, corners |-> Turned(9, 12)]
Unknown == [id |-> 99, corners |-> Upright(3, 3)]
SceneMarkers ==
    {FixedTag(j) : j \in 1..4}
    \cup {[id |-> 20, corners |-> Upright(10, 16)], Box, Unknown}

Detections == UNION {[1..n -> SceneMarkers] : n \in 0..MaxDetections}

\* Mean of the four corners (the corners used here have exact means).
calculate_marker_center(corners) ==
    << (corners[1][1] + corners[2][1] + corners[3][1] + corners[4][1]) \div 4,
       (corners[1][2] + corners[2][2] + corners[3][2] + corners[4][2]) \div 4 >>

\* atan2f(dy, dx) in quarter turns, for the axis-aligned edges used here.
atan2f(dy, dx) ==
    IF dy = 0 THEN (IF dx >= 0 THEN 0 ELSE 2)
    ELSE IF dy > 0 THEN 1 ELSE -1

\* An orientation taken from the marker's left edge.
calculate_marker_angle_LeftEdge(corners) ==
    atan2f(corners[4][2] - corners[1][2], corners[4][1] - corners[1][1])
\* Angle from corner 0 to corner 1, the top edge of the marker.
calculate_marker_angle(corners) ==
    atan2f(corners[2][2] - corners[1][2], corners[2][1] - corners[1][1])

\* The vision library's lens correction of a list of points.
fisheye_undistort_points(pts) ==
    [i \in DOMAIN pts |-> <<pts[i][1] - 1, pts[i][2] - 1>>]

\* The vision library's least-squares fit of the map from src to dst:
\* the scaling all the pairs agree on, when their points are distinct.
find_homography(src, dst) ==
    IF Cardinality(Range(src)) # Len(src) \/ Cardinality(Range(dst)) # Len(dst)
    THEN Degenerate
    ELSE IF \A i \in DOMAIN src :
                src[i] = <<dst[i][1] * 100, dst[i][2] * 100>>
    THEN <<1, 100>>
    ELSE IF \A i \in DOMAIN src :
                dst[i] = <<src[i][1] * 100, src[i][2] * 100>>
    THEN <<100, 1>>
    ELSE Degenerate

\* The vision library's application of a homography to a list of points.
perspective_transform(pts, H) ==
    [i \in DOMAIN pts |->
        <<(pts[i][1] * H[1]) \div H[2], (pts[i][2] * H[1]) \div H[2]>>]

RECURSIVE FixedCorrespondences(_, _, _)
\* The search for the fixed tags from detection index i on, given the
\* <<src, dst>> pairs found so far: every marker whose id is in tag_irl
\* adds a pair, until four pairs are found.
FixedCorrespondences(det, i, found) ==
    IF i > Len(det) \/ Len(found) >= 4 THEN found
    ELSE LET js == {j \in 1..4 : tag_irl[j][1] = det[i].id} IN
         IF js = {} THEN FixedCorrespondences(det, i + 1, found)
         ELSE LET j == CHOOSE k \in js : \A l \in js : k <= l IN
              FixedCorrespondences(det, i + 1,
                  Append(found,
                         << <<tag_irl[j][2], tag_irl[j][3]>>,
                            calculate_marker_center(det[i].corners) >>))

\* A registration that accepts three references.
EnoughReferences_Three(found_count) == found_count >= 3
\* The test on found_count that lets the registration go on.
EnoughReferences(found_count) == found_count = 4

\* The calls of the registration that can fail in the vision library.
RegistrationFailures ==
    {"none", "fisheye_undistort_points", "find_homography", "H_inv",
     "perspective_transform", "create_empty_image", "fill_poly"}

\* The play-area mask: the field's quadrilateral in the image.
FieldMask(H) == <<perspective_transform(field_corners, H)>>

\* What create_field_mask_from_image returns and leaves in the caller's
\* buffer when the detector finds det in the image: wantInv says whether
\* the caller passed a homography_inv buffer, old what the buffer held,
\* fail which library call fails, if any.
Registration(det, wantInv, fail, old) ==
    LET found == FixedCorrespondences(det, 1, <<>>)
        src_pts == [i \in DOMAIN found |-> found[i][1]]
        dst_pts == [i \in DOMAIN found |-> found[i][2]]
        undistorted == fisheye_undistort_points(dst_pts)
        H == find_homography(src_pts, undistorted)
        H_inv == find_homography(undistorted, src_pts)
        solved == /\ Len(det) > 0
                  /\ EnoughReferences(Len(found))
                  /\ fail \notin {"fisheye_undistort_points",
                                  "find_homography"}
        filled == /\ solved
                  /\ fail \notin {"perspective_transform",
                                  "create_empty_image", "fill_poly"}
    IN [mask |-> IF filled THEN FieldMask(H) ELSE NULL,
        homography_inv |-> IF solved /\ wantInv /\ fail # "H_inv"
                           THEN H_inv ELSE old]

\* create_field_mask_from_image on the frame.
create_field_mask_from_image(wantInv, fail) ==
    LET r == Registration(detection, wantInv, fail, homography_inv) IN
    /\ cvOp = "none"
    /\ homography_inv' = r.homography_inv
    /\ mask' = r.mask
    /\ cvOp' = "create_field_mask_from_image"
    /\ cvArgs' = <<wantInv, fail>>
    /\ UNCHANGED <<detection, markers, cvRet, transform_matrix>>

\* What rod_cv leaves alone.
NotVision ==
    <<cameraVars, ifaceVars, emuVars, routeVars, ctxBVars, loopVars,
      paramVars, monVars, appVars>>

\* The detections of a frame that carry a fixed tag's id.
FixedDetected(det) == {i \in DOMAIN det : det[i].id \in 20..23}

\* MarkerData of a marker whose position is pos.
MarkerData(marker, pos) ==
    LET center == calculate_marker_center(marker.corners) IN
    [id |-> marker.id, x |-> pos[1], y |-> pos[2],
     angle |-> calculate_marker_angle(marker.corners),
     pixel_x |-> center[1], pixel_y |-> center[2]]

\* A localizer that gives up a marker whose transformation failed.
StoreFallback_Dropped(out, marker) == out
\* Fallback: use pixel coordinates if transformation fails.
StoreFallback(out, marker) ==
    Append(out, MarkerData(marker, calculate_marker_center(marker.corners)))

\* Store marker data with playground coordinates (mm).
StoreLocalized(out, marker, Hinv) ==
    Append(out,
           MarkerData(marker,
               perspective_transform(
                   <<calculate_marker_center(marker.corners)>>, Hinv)[1]))

RECURSIVE LocalizeFrom(_, _, _, _, _, _)
\* The localizer's loop from detection index i on, out being the entries
\* of markers written so far and failing the indices of the detections
\* whose perspective_transform returns NULL.
LocalizeFrom(det, i, out, max_markers, Hinv, failing) ==
    IF i > Len(det) \/ Len(out) >= max_markers THEN out
    ELSE IF ~rod_config_is_valid_marker_id(det[i].id)
    THEN LocalizeFrom(det, i + 1, out, max_markers, Hinv, failing)
    ELSE IF i \in failing
    THEN LocalizeFrom(det, i + 1, StoreFallback(out, det[i]),
                      max_markers, Hinv, failing)
    ELSE LocalizeFrom(det, i + 1, StoreLocalized(out, det[i], Hinv),
                      max_markers, Hinv, failing)

RECURSIVE FilterFrom(_, _, _, _)
\* The loop of filter_valid_markers from detection index i on.
FilterFrom(det, i, out, max_markers) ==
    IF i > Len(det) \/ Len(out) >= max_markers THEN out
    ELSE IF ~rod_config_is_valid_marker_id(det[i].id)
    THEN FilterFrom(det, i + 1, out, max_markers)
    ELSE FilterFrom(det, i + 1,
             Append(out, MarkerData(det[i],
                        calculate_marker_center(det[i].corners))),
             max_markers)

\* Sizes of the caller's MarkerData array.
MarkerCapacities == {0, 2, MaxDetections}

\* localize_markers_in_playground on the frame's detection: haveInv says
\* whether the caller passed a homography_inv, failing which
\* transformations fail.
localize_markers_in_playground(max_markers, haveInv, failing) ==
    /\ cvOp = "none"
    /\ cvOp' = "localize_markers_in_playground"
    /\ cvArgs' = <<max_markers, haveInv, failing>>
    /\ IF max_markers <= 0 \/ ~haveInv
       THEN cvRet' = -1 /\ UNCHANGED markers
       ELSE LET out == LocalizeFrom(detection, 1, <<>>, max_markers,
                                    homography_inv, failing)
            IN markers' = out /\ cvRet' = Len(out)
    /\ UNCHANGED <<detection, homography_inv, mask, transform_matrix>>

\* filter_valid_markers(result, filtered_markers, max_markers): haveResult
\* and haveOut tell whether the two pointers are non-NULL.
filter_valid_markers(max_markers, haveResult, haveOut) ==
    /\ cvOp = "none"
    /\ cvOp' = "filter_valid_markers"
    /\ cvArgs' = <<max_markers, haveResult, haveOut>>
    /\ IF ~haveResult \/ ~haveOut \/ max_markers <= 0
       THEN cvRet' = 0 /\ UNCHANGED markers
       ELSE LET out == FilterFrom(detection, 1, <<>>, max_markers)
            IN markers' = out /\ cvRet' = Len(out)
    /\ UNCHANGED <<detection, homography_inv, mask, transform_matrix>>

\* Known playground positions of the fixed markers, mm: <<id, x, y, z>>.
fixed_markers_playground ==
    << <<20, 600, 600, 30>>, <<21, 600, 2400, 30>>,
       <<22, 1400, 600, 30>>, <<23, 1400, 2400, 30>> >>

\* The vision library's pose solve of a marker: its tvec, the marker's
\* centre in the camera frame.
solve_pnp(corners) ==
    LET c == calculate_marker_center(corners) IN <<c[1], c[2], 50>>

RECURSIVE PoseCorrespondences(_, _, _, _)
\* The search for the fixed markers from detection index i on, found being
\* the <<camera point, playground point>> pairs so far and poseFails the
\* indices of the detections whose pose solve does not succeed.
PoseCorrespondences(det, i, found, poseFails) ==
    IF i > Len(det) \/ Len(found) >= 4 THEN found
    ELSE LET js == {j \in 1..4 : fixed_markers_playground[j][1] = det[i].id}
         IN IF js = {} \/ i \in poseFails
            THEN PoseCorrespondences(det, i + 1, found, poseFails)
            ELSE LET j == CHOOSE k \in js : \A l \in js : k <= l IN
                 PoseCorrespondences(det, i + 1,
                     Append(found,
                            << solve_pnp(det[i].corners),
                               << fixed_markers_playground[j][2],
                                  fixed_markers_playground[j][3],
                                  fixed_markers_playground[j][4] >> >>),
                     poseFails)

RECURSIVE SumPoints(_, _)
\* The sum of the k-th points of the pairs.
SumPoints(pairs, k) ==
    IF pairs = <<>> THEN <<0, 0, 0>>
    ELSE LET rest == SumPoints(Tail(pairs), k)
             p == Head(pairs)[k]
         IN <<p[1] + rest[1], p[2] + rest[2], p[3] + rest[3]>>

\* An estimator content with three poses.
EnoughPoses_Three(found_count) == found_count >= 3
\* The test on found_count that lets the estimation go on.
EnoughPoses(found_count) == ~(found_count < 4)

\* compute_camera_to_playground_transform on the frame's detection.  The
\* rotation is the identity; transform_matrix holds the translation
\* playground_centroid - camera_centroid, in quarters of a millimetre
\* (the centroids are sums divided by 4).
compute_camera_to_playground_transform(poseFails) ==
    LET found == PoseCorrespondences(detection, 1, <<>>, poseFails)
        camera == SumPoints(found, 1)
        playground == SumPoints(found, 2)
    IN /\ cvOp = "none"
       /\ cvOp' = "compute_camera_to_playground_transform"
       /\ cvArgs' = <<poseFails>>
       /\ IF ~EnoughPoses(Len(found))
          THEN cvRet' = -1 /\ UNCHANGED transform_matrix
          ELSE /\ cvRet' = 0
               /\ transform_matrix' =
                      << playground[1] - camera[1],
                         playground[2] - camera[2],
                         playground[3] - camera[3] >>
       /\ UNCHANGED <<detection, homography_inv, mask, markers>>

\* rod_cv called once on a frame: the frame's detection is any of
\* Detections, the caller's buffer is untouched or holds the inverse of an
\* earlier registration.
VisionInit0 ==
    /\ CameraInit /\ InterfaceInit("IMX477") /\ ContextInit
    /\ ParametersInit(NULL) /\ MonitorIdle
    /\ \E det \in Detections, Hinv \in {Zeroed, <<100, 1>>} :
           VisionInit(det, Hinv)

VisionNext ==
    \/ \E wantInv \in BOOLEAN, fail \in RegistrationFailures :
           /\ create_field_mask_from_image(wantInv, fail)
           /\ UNCHANGED NotVision
    \/ \E max_markers \in MarkerCapacities, haveInv \in BOOLEAN,
          failing \in SUBSET (1..Len(detection)) :
           /\ localize_markers_in_playground(max_markers, haveInv, failing)
           /\ UNCHANGED NotVision
    \/ \E max_markers \in MarkerCapacities, haveResult, haveOut \in BOOLEAN :
           /\ filter_valid_markers(max_markers, haveResult, haveOut)
           /\ UNCHANGED NotVision
    \/ \E poseFails \in SUBSET (1..Len(detection)) :
           /\ compute_camera_to_playground_transform(poseFails)
           /\ UNCHANGED NotVision

VisionSpec == VisionInit0 /\ [][VisionNext]_vars

\* C15: when fewer than four markers with a fixed tag's id (20-23) are
\* detected, create_field_mask_from_image returns no mask and leaves the
\* caller's homography_inv as it was.
C15_InsufficientReferences ==
    [][(/\ cvOp' = "create_field_mask_from_image"
        /\ Cardinality(FixedDetected(detection)) < 4)
       => (mask' = NULL /\ homography_inv' = homography_inv)]_vars

\* Three fixed tags detected after a registration that had succeeded: no
\* mask, and the inverse of the earlier registration still in the buffer.
C15_Witness ==
    /\ cvOp = "create_field_mask_from_image"
    /\ cvArgs = <<TRUE, "none">>
    /\ Cardinality(FixedDetected(detection)) = 3
    /\ mask = NULL
    /\ homography_inv = <<100, 1>>

\* C16: a registration that returned a mask found each of the four fixed
\* tags exactly once among its correspondences.
C16_FourDistinctReferences ==
    (cvOp = "create_field_mask_from_image" /\ mask # NULL)
        => LET found == FixedCorrespondences(detection, 1, <<>>) IN
           \A j \in 1..4 :
               Cardinality({i \in DOMAIN found :
                   found[i][1] = <<tag_irl[j][2], tag_irl[j][3]>>}) = 1

\* The detections of a frame whose id is one of the game's, and the k-th
\* of them in detection order.
ValidDetected(det) ==
    {i \in DOMAIN det : rod_config_is_valid_marker_id(det[i].id)}
NthValid(det, k) ==
    CHOOSE i \in ValidDetected(det) :
        Cardinality({j \in ValidDetected(det) : j <= i}) = k

\* C18: localize_markers_in_playground, called with an array and an
\* inverse homography, emits min(max_markers, number of detections with a
\* valid id) markers whatever transformations fail; every emitted marker
\* keeps its id, angle and pixel centre, and one whose transformation
\* failed carries its pixel centre as x, y.
C18_FallbackNeverDrops ==
    (cvOp = "localize_markers_in_playground" /\ cvRet # -1)
        => LET max_markers == cvArgs[1]
               failing == cvArgs[3]
               valid == Cardinality(ValidDetected(detection))
               n == IF max_markers < valid THEN max_markers ELSE valid
           IN /\ cvRet = n
              /\ Len(markers) = n
              /\ \A k \in 1..n :
                   LET d == detection[NthValid(detection, k)]
                       center == calculate_marker_center(d.corners)
                   IN /\ markers[k].id = d.id
                      /\ markers[k].angle = calculate_marker_angle(d.corners)
                      /\ markers[k].pixel_x = center[1]
                      /\ markers[k].pixel_y = center[2]
                      /\ NthValid(detection, k) \in failing
                            => /\ markers[k].x = center[1]
                               /\ markers[k].y = center[2]

\* Three markers emitted from a frame with an unknown id in it: the first
\* in world coordinates, the second, whose transformation failed, in
\* pixel coordinates.
C18_Witness ==
    /\ cvOp = "localize_markers_in_playground" /\ cvRet = 3
    /\ \E i \in DOMAIN detection : detection[i].id = 99
    /\ NthValid(detection, 2) \in cvArgs[3]
    /\ NthValid(detection, 1) \notin cvArgs[3]
    /\ markers[1].x # markers[1].pixel_x
    /\ markers[2].x = markers[2].pixel_x

\* ---------------------------------------------------------------------
\* rod_detection: the main detection loop

MaxFailedCaptures == 2   \* captures that fail in one behaviour
MaxMarkers == 100        \* MarkerData markers[100]
ctx_running == TRUE      \* ctx->running, set once by init_app_context

\* What camera_interface_capture_frame can come back with.
CaptureResults == {"Ok", "FrameTimeout", "CaptureFailure"}

\* The frames the loop is shown: nothing, the four fixed tags, three of
\* them, a box beside an unknown marker, a fixed tag beside a box.
LoopFrames ==
    { <<>>,
      <<FixedTag(1), FixedTag(2), FixedTag(3), FixedTag(4)>>,
      <<FixedTag(1), FixedTag(2), FixedTag(3)>>,
      <<Box, Unknown>>,
      <<FixedTag(1), Box>> }

\* What the loop leaves alone.
NotLoop ==
    <<cameraVars, ifaceVars, emuVars, routeVars, ctxBVars,
      homography_inv, mask, cvOp, cvArgs, cvRet, transform_matrix,
      paramVars, monVars, appVars>>

\* SIGINT or SIGTERM.
signal_handler ==
    /\ g_running
    /\ g_running' = FALSE
    /\ UNCHANGED <<lPc, field_mask, sent, captured, failedCaptures,
                   maskAttempt, owned,
                   detection, markers, NotLoop>>

\* while (g_running && ctx.running)
main_loop_test ==
    /\ lPc = "test"
    /\ lPc' = IF g_running /\ ctx_running THEN "capture" ELSE "exited"
    /\ UNCHANGED <<g_running, field_mask, sent, captured, failedCaptures,
                   maskAttempt, owned,
                   detection, markers, NotLoop>>

\* A loop that gives up at the first failed capture.
main_capture_failed_Break == "exited"
\* "Failed to capture image": wait 10ms before retry.
main_capture_failed == "backoff"

\* camera_interface_capture_frame in the loop.
main_capture(result) ==
    /\ lPc = "capture"
    /\ result # "Ok" => failedCaptures < MaxFailedCaptures
    /\ captured' = result
    /\ IF result = "Ok"
       THEN lPc' = "preprocess" /\ UNCHANGED failedCaptures
       ELSE /\ lPc' = main_capture_failed
            /\ failedCaptures' = failedCaptures + 1
    \* a capture that fails leaves image_buffer NULL
    /\ owned' = [NothingOwned EXCEPT
                    !.image_buffer = IF result = "Ok" THEN "held" ELSE "none"]
    /\ UNCHANGED <<g_running, field_mask, sent, detection, markers,
                   maskAttempt, NotLoop>>

\* usleep(10000); continue
main_backoff ==
    /\ lPc = "backoff"
    /\ lPc' = "test"
    /\ UNCHANGED <<g_running, field_mask, sent, captured, failedCaptures,
                   maskAttempt, owned,
                   detection, markers, NotLoop>>

\* create_image_from_buffer and sharpen_image_reuse, either of which can
\* fail.
main_preprocess(created, sharpened) ==
    /\ lPc = "preprocess"
    /\ ~created => ~sharpened
    /\ lPc' = IF created /\ sharpened THEN "field_mask" ELSE "backoff"
    \* free(image_buffer) follows create_image_from_buffer in any case;
    \* a failed sharpening releases original_image
    /\ owned' = [owned EXCEPT
                    !.image_buffer = Release(@),
                    !.original_image =
                        IF ~created THEN "none"
                        ELSE IF ~sharpened THEN "released" ELSE "held"]
    /\ UNCHANGED <<g_running, field_mask, sent, captured, failedCaptures,
                   maskAttempt,
                   detection, markers, NotLoop>>

\* A loop that registers the field on every frame.
NeedsRegistration_Always(fm) == TRUE
\* if (!ctx.field_mask)
NeedsRegistration(fm) == fm = NULL

\* Step 2: create the field mask if not already created; det is what the
\* detector finds in the sharpened frame.
main_field_mask(det, fail) ==
    /\ lPc = "field_mask"
    /\ IF NeedsRegistration(field_mask)
       THEN /\ field_mask' =
                   Registration(det, FALSE, fail, homography_inv).mask
            /\ maskAttempt' = <<det, fail>>
       ELSE /\ UNCHANGED field_mask
            /\ maskAttempt' = <<>>
    /\ lPc' = "detect"
    /\ UNCHANGED <<g_running, sent, captured, failedCaptures, owned,
                   detection, markers, NotLoop>>

\* Steps 3 to 6, the sending of the result and the end of the iteration:
\* masking, resizing (which can fail), detection on the preprocessed
\* image, filtering, sending, release_image(original_image).  found tells
\* whether the detector returned a DetectionResult, det what it holds.
main_detect_and_send(resized, det, found) ==
    /\ lPc = "detect"
    /\ ~found => det = <<>>
    /\ IF ~resized
       THEN /\ lPc' = "backoff"
            /\ owned' = [owned EXCEPT !.original_image = Release(@)]
            /\ UNCHANGED <<detection, markers, sent>>
       ELSE /\ lPc' = "test"
            /\ detection' = det
            /\ IF found /\ Len(det) > 0
               THEN LET out == FilterFrom(det, 1, <<>>, MaxMarkers) IN
                    /\ markers' = out
                    /\ sent' = IF Len(out) > 0 THEN out ELSE sent
               ELSE UNCHANGED <<markers, sent>>
            \* releaseDetectionResult is in the branch of a detection
            \* with markers
            /\ owned' = [owned EXCEPT
                            !.original_image = Release(@),
                            !.detection =
                                IF ~found THEN "none"
                                ELSE IF Len(det) > 0 THEN "released"
                                ELSE "held"]
    /\ UNCHANGED <<g_running, field_mask, captured, failedCaptures,
                   maskAttempt, NotLoop>>

LoopNext ==
    \/ signal_handler
    \/ main_loop_test
    \/ \E result \in CaptureResults : main_capture(result)
    \/ main_backoff
    \/ \E created, sharpened \in BOOLEAN :
           main_preprocess(created, sharpened)
    \/ \E det \in LoopFrames, fail \in RegistrationFailures :
           main_field_mask(det, fail)
    \/ \E resized, found \in BOOLEAN, det \in LoopFrames :
           main_detect_and_send(resized, det, found)

LoopSpec == Init /\ [][LoopNext]_vars

\* The main thread keeps running; signals come when they come.
FairLoopSpec ==
    /\ LoopSpec
    /\ WF_vars(main_loop_test)
    /\ WF_vars(\E result \in CaptureResults : main_capture(result))
    /\ WF_vars(main_backoff)
    /\ WF_vars(\E created, sharpened \in BOOLEAN :
           main_preprocess(created, sharpened))
    /\ WF_vars(\E det \in LoopFrames, fail \in RegistrationFailures :
                   main_field_mask(det, fail))
    /\ WF_vars(\E resized, found \in BOOLEAN, det \in LoopFrames :
                   main_detect_and_send(resized, det, found))

\* The inverse homographies a registration can leave.
RegistrationInverses == {<<100, 1>>, Degenerate}

\* C17: once the field mask exists, the markers of a frame sent to the
\* socket are the frame's detections localised in the playground: x, y
\* are the pixel centre taken through an inverse homography.
C17_LocalizedAfterRegistration ==
    [][(/\ lPc = "detect" /\ lPc' = "test"
        /\ field_mask # NULL
        /\ FilterFrom(detection', 1, <<>>, MaxMarkers) # <<>>)
       => \E Hinv \in RegistrationInverses :
              sent' = LocalizeFrom(detection', 1, <<>>, MaxMarkers,
                                   Hinv, {})]_vars

\* C19: the loop exits only when shutdown has been requested, and a failed
\* capture is followed by another capture attempt unless shutdown is
\* requested first.
C19_FailedCaptureRetried ==
    /\ [][lPc' = "exited" => ~g_running]_vars
    /\ (lPc = "backoff" /\ captured # "Ok")
           ~> (lPc = "capture" \/ lPc = "exited")

\* A capture attempt after two captures failed, one by timeout.
C19_Witness ==
    /\ lPc = "capture" /\ g_running
    /\ failedCaptures = 2 /\ captured = "FrameTimeout"

\* ---------------------------------------------------------------------
\* build_control_list: CameraParameters to the controls given to the camera

\* struct CameraParameters: every field -1 or a value of its range
\* (fractional fields are counted in units that make the values whole).
CameraParameters ==
    [ae_enable : {-1, 0, 1}, exposure_time : {-1, 5000},
     analogue_gain : {-1, 2}, noise_reduction_mode : {-1, 1, 7},
     sharpness : {-1, 1}, contrast : {-1, 1}, brightness : {-1, 0},
     saturation : {-1, 1}, awb_enable : {-1, 0, 1},
     colour_temperature : {-1, 4000},
     frame_duration_min : {-1, 33333}, frame_duration_max : {-1, 33333}]

\* camera_default_parameters(): all -1.
camera_default_parameters ==
    [ae_enable |-> -1, exposure_time |-> -1, analogue_gain |-> -1,
     noise_reduction_mode |-> -1, sharpness |-> -1, contrast |-> -1,
     brightness |-> -1, saturation |-> -1, awb_enable |-> -1,
     colour_temperature |-> -1, frame_duration_min |-> -1,
     frame_duration_max |-> -1]

\* The switch from nr_mode to libcamera's enum.
NoiseReductionMode(nr_mode) ==
    CASE nr_mode = 0 -> "NoiseReductionModeOff"
      [] nr_mode = 1 -> "NoiseReductionModeFast"
      [] nr_mode = 2 -> "NoiseReductionModeHighQuality"
      [] nr_mode = 3 -> "NoiseReductionModeMinimal"
      [] nr_mode = 4 -> "NoiseReductionModeZSL"
      [] OTHER -> "NoiseReductionModeHighQuality"

\* The ControlList build_control_list(p) returns, as the set of its
\* <<control, value>> entries; p is NULL or <<a CameraParameters>>.
build_control_list(p) ==
    LET given == p # NULL
        f == p[1]
        ae_enable == IF given /\ f.ae_enable >= 0
                     THEN f.ae_enable # 0 ELSE TRUE
        nr_mode == IF given /\ f.noise_reduction_mode >= 0
                   THEN f.noise_reduction_mode ELSE 2
        awb_enable == IF given /\ f.awb_enable >= 0
                      THEN f.awb_enable # 0 ELSE TRUE
        frame_min == IF given /\ f.frame_duration_min >= 0
                     THEN f.frame_duration_min ELSE 100
        frame_max == IF given /\ f.frame_duration_max >= 0
                     THEN f.frame_duration_max ELSE 1000000000
    IN {<<"AeEnable", ae_enable>>}
       \cup (IF given /\ ~ae_enable /\ f.exposure_time >= 0
             THEN {<<"ExposureTime", f.exposure_time>>} ELSE {})
       \cup (IF given /\ f.analogue_gain >= 0
             THEN {<<"AnalogueGain", f.analogue_gain>>} ELSE {})
       \cup {<<"NoiseReductionMode", NoiseReductionMode(nr_mode)>>}
       \cup (IF given /\ f.sharpness >= 0
             THEN {<<"Sharpness", f.sharpness>>} ELSE {})
       \cup (IF given /\ f.contrast >= 0
             THEN {<<"Contrast", f.contrast>>} ELSE {})
       \cup (IF given /\ f.brightness >= -1
             THEN {<<"Brightness", f.brightness>>} ELSE {})
       \cup (IF given /\ f.saturation >= 0
             THEN {<<"Saturation", f.saturation>>} ELSE {})
       \cup {<<"AwbEnable", awb_enable>>}
       \cup (IF given /\ ~awb_enable /\ f.colour_temperature >= 0
             THEN {<<"ColourTemperature", f.colour_temperature>>} ELSE {})
       \cup {<<"FrameDurationLimits", <<frame_min, frame_max>> >>}

\* libcamera_start_with_params builds the control list from its params.
libcamera_start_with_params_controls ==
    /\ controls = {}
    /\ controls' = build_control_list(params)
    /\ UNCHANGED <<params, cameraVars, ifaceVars, emuVars, routeVars,
                   ctxBVars, visionVars, monVars, appVars>>

\* The camera started with no parameters or with any CameraParameters.
ControlsInit ==
    /\ CameraInit /\ InterfaceInit("IMX477") /\ ContextInit
    /\ VisionInit(<<>>, Zeroed)
    /\ \E p \in {NULL} \cup {<<f>> : f \in CameraParameters} :
           ParametersInit(p)
    /\ MonitorIdle

ControlsSpec ==
    ControlsInit /\ [][libcamera_start_with_params_controls]_vars

\* The controls whose value is a number taken from a field.
NumericControls ==
    [exposure_time |-> "ExposureTime", analogue_gain |-> "AnalogueGain",
     sharpness |-> "Sharpness", contrast |-> "Contrast",
     brightness |-> "Brightness", saturation |-> "Saturation",
     colour_temperature |-> "ColourTemperature"]

\* C20: the control list built from parameters that are all -1 is the one
\* built from no parameters, and no field left at -1 reaches the control
\* list as the value -1.
C20_MinusOneMeansDefault ==
    (controls # {} /\ params # NULL)
        => /\ params[1] = camera_default_parameters
                => controls = build_control_list(NULL)
           /\ \A field \in DOMAIN NumericControls :
                  params[1][field] = -1
                      => <<NumericControls[field], -1>> \notin controls

\* The detections of the frame that carry a fixed marker's id and whose
\* pose solve succeeds.
PosesAvailable(det, poseFails) == FixedDetected(det) \ poseFails

\* C21: compute_camera_to_playground_transform returns -1 and leaves the
\* caller's transform_matrix as it was whenever fewer than four fixed
\* markers with a successful pose solve are detected, and it returns 0
\* only when four are.
C21_TransformNeedsFourPoses ==
    [][cvOp' = "compute_camera_to_playground_transform"
       => /\ Cardinality(PosesAvailable(detection, cvArgs'[1])) < 4
                => (cvRet' = -1 /\ transform_matrix' = transform_matrix)
          /\ cvRet' = 0
                => Cardinality(PosesAvailable(detection, cvArgs'[1])) >= 4]_vars

\* Four fixed markers detected, the pose solve of one of them failing:
\* the estimator has returned -1 and the matrix is as the caller left it.
C21_Witness ==
    /\ cvOp = "compute_camera_to_playground_transform"
    /\ Cardinality(FixedDetected(detection)) = 4
    /\ Cardinality(cvArgs[1]) = 1
    /\ cvArgs[1] \subseteq FixedDetected(detection)
    /\ cvRet = -1
    /\ transform_matrix = <<0, 0, 0>>

\* C22: after a registration that returned a mask and was given a
\* homography_inv buffer, every correspondence's world point goes to its
\* undistorted pixel through the homography and comes back through the
\* stored inverse, and so do the field's corners.
C22_HomographyRoundTrip ==
    (/\ cvOp = "create_field_mask_from_image"
     /\ mask # NULL
     /\ cvArgs[1])
        => LET found == FixedCorrespondences(detection, 1, <<>>)
               src_pts == [i \in DOMAIN found |-> found[i][1]]
               dst_pts == [i \in DOMAIN found |-> found[i][2]]
               undistorted == fisheye_undistort_points(dst_pts)
               H == find_homography(src_pts, undistorted)
           IN /\ perspective_transform(src_pts, H) = undistorted
              /\ perspective_transform(undistorted, homography_inv) = src_pts
              /\ perspective_transform(
                     perspective_transform(field_corners, H),
                     homography_inv) = field_corners

NotMonitor ==
    <<width, height, configured, config, bufData, out_buffer, outVars,
      kIdx, kOp, kRet, lastFrame, faults, stopWhileWaiting, ifaceVars,
      emuVars, routeVars, ctxBVars, visionVars, paramVars, appVars>>

\* An access to object by thread, with or without request_mutex held.
Access(thread, object) == <<thread, object, request_mutex = thread>>

\* A handler that requeues before it leaves its locked block.
AfterPush_StillLocked == "check"
\* The handler's locked block ends after the push and the notify.
AfterPush == "unlock"

\* A wait_for that reports a timeout without evaluating the predicate.
TimeoutResult_NoRecheck(pred) == FALSE
\* wait_for at its deadline returns pred().
TimeoutResult(pred) == pred

\* libcamera_start_with_params and libcamera_stop.
MonController ==
    \/ \* allocator, one request per buffer, camera->start(&controls)
       /\ kPc = "idle" /\ ~started /\ nStarts < MaxStarts
       /\ nStarts' = nStarts + 1
       /\ allocator' = TRUE
       /\ requests' = [i \in 1..NumBuffers |-> Req(i, nStarts + 1)]
       /\ hwRunning' = TRUE
       /\ kPc' = "mon_run"
       /\ UNCHANGED <<started, running, completed_requests, hwQueued,
                      lastAccess, request_mutex, frameForCall>>
    \/ \* ctx->running = true
       /\ kPc = "mon_run"
       /\ running' = TRUE
       /\ lastAccess' = Access("controller", "running")
       /\ kPc' = "mon_queue"
       /\ UNCHANGED <<started, nStarts, allocator, requests, hwRunning,
                      completed_requests, hwQueued, request_mutex,
                      frameForCall>>
    \/ \* queueRequest for every request
       /\ kPc = "mon_queue"
       /\ hwQueued' = Range(requests)
       /\ started' = TRUE
       /\ kPc' = "idle"
       /\ UNCHANGED <<nStarts, allocator, requests, hwRunning, running,
                      completed_requests, lastAccess, request_mutex,
                      frameForCall>>
    \/ \* libcamera_stop: ctx->running = false
       /\ kPc = "idle" /\ started
       /\ running' = FALSE
       /\ lastAccess' = Access("controller", "running")
       /\ kPc' = "mon_stop_hw"
       /\ UNCHANGED <<started, nStarts, allocator, requests, hwRunning,
                      completed_requests, hwQueued, request_mutex,
                      frameForCall>>
    \/ \* camera->stop() returns when nothing is queued and the handler
       \* is not running
       /\ kPc = "mon_stop_hw" /\ cbPc = "idle" /\ hwQueued = {}
       /\ hwRunning' = FALSE
       /\ kPc' = "mon_drain_lock"
       /\ UNCHANGED <<started, nStarts, allocator, requests, running,
                      completed_requests, hwQueued, lastAccess,
                      request_mutex, frameForCall>>
    \/ \* lock_guard lock(ctx->request_mutex)
       /\ kPc = "mon_drain_lock" /\ request_mutex = "free"
       /\ request_mutex' = "controller"
       /\ kPc' = "mon_drain"
       /\ UNCHANGED <<started, nStarts, allocator, requests, hwRunning,
                      running, completed_requests, hwQueued, lastAccess,
                      frameForCall>>
    \/ \* the queue is emptied and the lock released
       /\ kPc = "mon_drain"
       /\ completed_requests' = <<>>
       /\ lastAccess' = Access("controller", "completed_requests")
       /\ frameForCall' = FALSE
       /\ request_mutex' = "free"
       /\ kPc' = "mon_clear"
       /\ UNCHANGED <<started, nStarts, allocator, requests, hwRunning,
                      running, hwQueued>>
    \/ \* requests.clear(), delete allocator
       /\ kPc = "mon_clear"
       /\ requests' = <<>>
       /\ allocator' = FALSE
       /\ started' = FALSE
       /\ kPc' = "idle"
       /\ UNCHANGED <<nStarts, hwRunning, running, completed_requests,
                      hwQueued, lastAccess, request_mutex, frameForCall>>

\* The camera completes a queued request or, inside camera->stop(), hands
\* it back cancelled; request_completed_handler is entered.
MonHardware(r) ==
    /\ hwRunning /\ r \in hwQueued /\ cbPc = "idle"
    /\ \/ /\ nCompl < MaxCompletions
          /\ nCompl' = nCompl + 1
          /\ cbStatus' = "RequestComplete"
       \/ /\ kPc = "mon_stop_hw"
          /\ cbStatus' = "RequestCancelled"
          /\ UNCHANGED nCompl
    /\ hwQueued' = hwQueued \ {r}
    /\ cbPc' = "lock" /\ cbReq' = r

\* request_completed_handler.
MonHandler ==
    \/ \* lock_guard lock(g_active_context->request_mutex)
       /\ cbPc = "lock" /\ request_mutex = "free"
       /\ request_mutex' = "callback"
       /\ cbPc' = "push"
       /\ UNCHANGED <<cbReq, cbStatus, completed_requests, pushed, notified,
                      lastAccess, frameForCall, hwQueued>>
    \/ \* completed_requests.push(request); request_cv.notify_one()
       /\ cbPc = "push"
       /\ IF StatusGood(cbStatus)
          THEN /\ completed_requests' = Append(completed_requests, cbReq)
               /\ pushed' = Append(pushed, nCompl)
               /\ notified' = (cvWaiting \/ notified)
               /\ lastAccess' = Access("callback", "completed_requests")
               /\ frameForCall' =
                      (frameForCall
                       \/ (cPc # "idle" /\ elapsed < TimeoutTicks))
          ELSE UNCHANGED <<completed_requests, pushed, notified, lastAccess,
                           frameForCall>>
       /\ cbPc' = AfterPush
       /\ UNCHANGED <<cbReq, cbStatus, request_mutex, hwQueued>>
    \/ \* the end of the locked block
       /\ cbPc = "unlock"
       /\ request_mutex' = "free"
       /\ cbPc' = "check"
       /\ UNCHANGED <<cbReq, cbStatus, completed_requests, pushed, notified,
                      lastAccess, frameForCall, hwQueued>>
    \/ \* if (g_active_context->running && status == RequestComplete)
       /\ cbPc = "check"
       /\ lastAccess' = Access("callback", "running")
       /\ IF running /\ cbStatus = "RequestComplete"
          THEN cbPc' = "requeue" /\ UNCHANGED <<cbReq, cbStatus>>
          ELSE cbPc' = "idle" /\ cbReq' = NoRequest /\ cbStatus' = "None"
       /\ UNCHANGED <<completed_requests, pushed, notified, request_mutex,
                      frameForCall, hwQueued>>
    \/ \* request->reuse(); camera->queueRequest(request)
       /\ cbPc = "requeue"
       /\ hwQueued' = IF hwRunning THEN hwQueued \cup {cbReq} ELSE hwQueued
       /\ cbPc' = "idle" /\ cbReq' = NoRequest /\ cbStatus' = "None"
       /\ UNCHANGED <<completed_requests, pushed, notified, request_mutex,
                      lastAccess, frameForCall>>

\* libcamera_capture_frame.
MonConsumer ==
    \/ \* the call, up to the unique_lock
       /\ cPc = "idle" /\ allocator
       /\ cPc' = "lock" /\ elapsed' = 0 /\ cRet' = "None"
       /\ frameForCall' = FALSE
       /\ UNCHANGED <<held, completed_requests, request_mutex, cvWaiting,
                      notified, lastAccess>>
    \/ \* unique_lock lock(ctx->request_mutex), or the lock taken again
       \* after a wait
       /\ cPc \in {"lock", "relock", "relock_timed"}
       /\ request_mutex = "free"
       /\ request_mutex' = "consumer"
       /\ cPc' = IF cPc = "relock_timed" THEN "timed" ELSE "pred"
       /\ UNCHANGED <<elapsed, held, cRet, completed_requests, cvWaiting,
                      notified, lastAccess, frameForCall>>
    \/ \* wait_for: while (!pred()) wait_until(lock, deadline)
       /\ cPc = "pred"
       /\ lastAccess' = Access("consumer", "completed_requests")
       /\ IF completed_requests # <<>>
          THEN /\ cPc' = "pop"
               /\ UNCHANGED <<request_mutex, cvWaiting, notified>>
          ELSE IF WaitTimedOut
          THEN /\ cPc' = "timed"
               /\ UNCHANGED <<request_mutex, cvWaiting, notified>>
          ELSE /\ cPc' = "blocked"
               /\ request_mutex' = "free"
               /\ cvWaiting' = TRUE /\ notified' = FALSE
       /\ UNCHANGED <<elapsed, held, cRet, completed_requests, frameForCall>>
    \/ \* the wait ends: notified, woken for no reason, or at the deadline
       /\ cPc = "blocked"
       /\ \/ cPc' = "relock"
          \/ WaitTimedOut /\ cPc' = "relock_timed"
       /\ cvWaiting' = FALSE /\ notified' = FALSE
       /\ UNCHANGED <<elapsed, held, cRet, completed_requests,
                      request_mutex, lastAccess, frameForCall>>
    \/ \* wait_until returned timeout: return pred()
       /\ cPc = "timed"
       /\ lastAccess' = Access("consumer", "completed_requests")
       /\ IF TimeoutResult(completed_requests # <<>>)
          THEN /\ cPc' = "pop"
               /\ UNCHANGED <<elapsed, held, cRet, request_mutex>>
          ELSE /\ request_mutex' = "free"
               /\ CReturn("FrameTimeout")
       /\ UNCHANGED <<completed_requests, cvWaiting, notified, frameForCall>>
    \/ \* front(), pop(), lock.unlock()
       /\ cPc = "pop" /\ completed_requests # <<>>
       /\ held' = Head(completed_requests)
       /\ completed_requests' = Tail(completed_requests)
       /\ lastAccess' = Access("consumer", "completed_requests")
       /\ request_mutex' = "free"
       /\ cPc' = "copy"
       /\ UNCHANGED <<elapsed, cRet, cvWaiting, notified, frameForCall>>
    \/ \* the copy of the frame, outside the lock
       /\ cPc = "copy"
       /\ CReturn("Ok")
       /\ UNCHANGED <<completed_requests, request_mutex, cvWaiting,
                      notified, lastAccess, frameForCall>>

\* Time passes while wait_for is in progress.
MonTick ==
    /\ cPc \in {"pred", "blocked", "relock", "relock_timed"}
    /\ elapsed < TimeoutTicks
    /\ elapsed' = elapsed + 1

MonitorNext ==
    \/ /\ MonController
       /\ UNCHANGED <<nCompl, cbVars, cPc, elapsed, held, cRet, pushed,
                      cvWaiting, notified, NotMonitor>>
    \/ /\ \E r \in hwQueued : MonHardware(r)
       /\ UNCHANGED <<started, requests, allocator, completed_requests,
                      running, hwRunning, cPc, elapsed, held, cRet, kPc,
                      pushed, nStarts, monVars, NotMonitor>>
    \/ /\ MonHandler
       /\ UNCHANGED <<started, requests, allocator, running, hwRunning,
                      nCompl, cPc, elapsed, held, cRet, kPc, nStarts,
                      cvWaiting, NotMonitor>>
    \/ /\ MonConsumer
       /\ UNCHANGED <<started, requests, allocator, running, hwRunning,
                      hwQueued, nCompl, cbVars, kPc, pushed, nStarts,
                      NotMonitor>>
    \/ /\ MonTick
       /\ UNCHANGED <<started, requests, allocator, completed_requests,
                      running, hwRunning, hwQueued, nCompl, cbVars, cPc,
                      held, cRet, kPc, pushed, nStarts, monVars, NotMonitor>>

MonitorSpec == Init /\ [][MonitorNext]_vars

\* C24: the handler calls queueRequest only when it does not hold
\* request_mutex.
C24_RequeueOutsideLock ==
    [][(cbPc = "requeue" /\ cbPc' # cbPc)
       => request_mutex # "callback"]_vars

\* The handler is about to requeue while the consumer holds request_mutex.
C24_Witness == cbPc = "requeue" /\ request_mutex = "consumer"

\* C25: every access to running and to completed_requests is made by a
\* thread that holds request_mutex.
C25_MonitorGuardsRunning == lastAccess # <<>> => lastAccess[3]

StartSucceeds == kPc = "start_queue" /\ kPc' = "idle" /\ kRet' = 0

\* C27: when a start returns success the pool holds one request per
\* buffer of the allocator, every request of the pool was queued by the
\* start, and running is set.
C27_StartFillsPool ==
    [][StartSucceeds
       => /\ Len(requests) = NumBuffers
          /\ kIdx = Len(requests) + 1
          /\ running]_vars

\* libcamera_stop has drained the queue and the next start has not been
\* called: the controller is in the last step of the stop, or it is idle
\* with the allocator deleted and the camera stopped.
StoppedAndDrained ==
    /\ ~hwRunning
    /\ \/ kPc = "stop_clear"
       \/ kPc = "idle" /\ ~allocator

\* C28: from the drain of libcamera_stop until the next start the queue is
\* empty, nothing is queued at the camera and the handler is not running;
\* once the stop has returned running is clear and the pool and its
\* buffers are gone.
C28_StopLeavesNothing ==
    StoppedAndDrained
    => /\ completed_requests = <<>>
       /\ hwQueued = {}
       /\ cbPc = "idle"
       /\ ~running
       /\ kPc = "idle" => (requests = <<>> /\ ~started)

\* A stop has returned after frames were pushed that no capture took.
C28_Witness ==
    /\ kPc = "idle" /\ kOp = "stop" /\ kRet = 0 /\ ~allocator
    /\ Len(pushed) = MaxCompletions
    /\ lastFrame = 0

\* C29: a frame that reaches step 2 while there is no field mask calls
\* create_field_mask_from_image and keeps what it returns; a frame that
\* reaches it with a mask makes no call; and a mask, once there, is never
\* replaced or cleared.
C29_RegistrationOneShot ==
    [][/\ (lPc = "field_mask" /\ lPc' = "detect")
          => IF field_mask = NULL
             THEN /\ maskAttempt' # <<>>
                  /\ field_mask' =
                         Registration(maskAttempt'[1], FALSE,
                                      maskAttempt'[2],
                                      homography_inv).mask
             ELSE maskAttempt' = <<>>
       /\ field_mask # NULL => field_mask' = field_mask]_vars

\* A frame has passed step 2 without a call, the mask being there, after
\* captures that failed.
C29_Witness ==
    /\ lPc = "detect" /\ field_mask # NULL /\ maskAttempt = <<>>
    /\ failedCaptures > 0

\* C30: every marker the localizer transformed carries as x, y the
\* inverse homography applied to the undistorted pixel centre, and as
\* pixel_x, pixel_y the centre as detected.
C30_UndistortBeforeTransform ==
    (cvOp = "localize_markers_in_playground" /\ cvRet # -1)
        => \A k \in 1..Len(markers) :
             LET i == NthValid(detection, k)
                 center == calculate_marker_center(detection[i].corners)
                 undistorted == fisheye_undistort_points(<<center>>)
                 terrain == perspective_transform(undistorted,
                                                  homography_inv)[1]
             IN /\ markers[k].pixel_x = center[1]
                /\ markers[k].pixel_y = center[2]
                /\ i \notin cvArgs[3]
                      => /\ markers[k].x = terrain[1]
                         /\ markers[k].y = terrain[2]

\* C31: filter_valid_markers writes the detections whose id is one of the
\* game's, in detection order, up to max_markers of them, each with its id
\* and its pixel centre, and returns how many it wrote; with a NULL result
\* or output pointer, or max_markers <= 0, it returns 0 and writes nothing.
C31_FilterKeepsValidInOrder ==
    cvOp = "filter_valid_markers"
        => LET max_markers == cvArgs[1]
               GameIds == (1..10) \cup (20..23) \cup {36, 41, 47}
               IsGameMarker(d) == d.id \in GameIds
               valid == SelectSeq(detection, IsGameMarker)
               n == IF max_markers < Len(valid)
                    THEN max_markers ELSE Len(valid)
           IN IF ~cvArgs[2] \/ ~cvArgs[3] \/ max_markers <= 0
              THEN cvRet = 0 /\ markers = <<>>
              ELSE /\ cvRet = n
                   /\ Len(markers) = n
                   /\ \A k \in 1..n :
                        LET center ==
                              calculate_marker_center(valid[k].corners)
                        IN /\ markers[k].id = valid[k].id
                           /\ markers[k].x = center[1]
                           /\ markers[k].y = center[2]

\* A frame of four detections, the first of an unknown id and the three
\* others the game's, filtered into an array of two.
C31_Witness ==
    /\ cvOp = "filter_valid_markers" /\ cvArgs = <<2, TRUE, TRUE>>
    /\ cvRet = 2
    /\ Len(detection) = 4 /\ detection[1].id = 99
    /\ Cardinality(ValidDetected(detection)) = 3
    /\ markers[1].id = detection[2].id

\* ---------------------------------------------------------------------
\* rod_cv: the geometry of one marker

\* Shoelace formula over the four corners: |sum| / 2.
calculate_marker_area(corners) ==
    LET next(i) == (i % 4) + 1
        term(i) == corners[i][1] * corners[next(i)][2]
                   - corners[next(i)][1] * corners[i][2]
        area == term(1) + term(2) + term(3) + term(4)
    IN (IF area < 0 THEN -area ELSE area) \div 2

RECURSIVE normalize_angle(_)
\* normalize_angle, in quarter turns: PI is 2.
normalize_angle(angle) ==
    IF angle > 2 THEN normalize_angle(angle - 4)
    ELSE IF angle < -2 THEN normalize_angle(angle + 4)
    ELSE angle

\* The corners arrays the functions are shown: rectangles of even sides
\* with their first corner at the top left, and the same turned by one,
\* two and three quarters about their centre.
MarkerCorners ==
    LET Rect(x, y, w, h) ==
            << <<x, y>>, <<x + w, y>>, <<x + w, y + h>>, <<x, y + h>> >>
        RECURSIVE Turn(_, _)
        Turn(c, k) ==
            IF k = 0 THEN c
            ELSE LET m == calculate_marker_center(c)
                 IN Turn([i \in 1..4 |->
                             <<m[1] - (c[i][2] - m[2]),
                               m[2] + (c[i][1] - m[1])>>], k - 1)
    IN {Turn(Rect(x, y, w, h), k) :
            x \in {0, 3}, y \in {0, 3}, w \in {2, 4, 10}, h \in {2, 4, 10},
            k \in 0..3}

\* One marker with the corners c has been detected; no function called.
GeometryInit ==
    /\ CameraInit /\ InterfaceInit("IMX477") /\ ContextInit
    /\ ParametersInit(NULL) /\ MonitorIdle
    /\ \E c \in MarkerCorners :
           VisionInit(<<[id |-> 1, corners |-> c]>>, Zeroed)

\* calculate_marker_center, calculate_marker_angle followed by
\* normalize_angle, and calculate_marker_area, called on the corners of
\* the detected marker.
GeometryNext ==
    /\ cvOp = "none"
    /\ cvArgs' = <<detection[1].corners>>
    /\ \/ /\ cvOp' = "calculate_marker_center"
          /\ cvRet' = calculate_marker_center(detection[1].corners)
       \/ /\ cvOp' = "calculate_marker_angle"
          /\ cvRet' =
                 normalize_angle(calculate_marker_angle(detection[1].corners))
       \/ /\ cvOp' = "calculate_marker_area"
          /\ cvRet' = calculate_marker_area(detection[1].corners)
    /\ UNCHANGED <<detection, homography_inv, mask, markers,
                   transform_matrix, NotVision>>

GeometrySpec == GeometryInit /\ [][GeometryNext]_vars

\* C32: for the square (0,0), (10,0), (10,10), (0,10) the centre is (5,5),
\* the angle 0 and the area 100; for the same square turned by a quarter
\* the angle is PI/2 (one quarter turn) and the area still 100.
C32_SquareGeometry ==
    LET square == << <<0, 0>>, <<10, 0>>, <<10, 10>>, <<0, 10>> >>
        turned == << <<10, 0>>, <<10, 10>>, <<0, 10>>, <<0, 0>> >>
    IN /\ (cvOp = "calculate_marker_center" /\ cvArgs = <<square>>)
            => cvRet = <<5, 5>>
       /\ (cvOp = "calculate_marker_angle" /\ cvArgs = <<square>>)
            => cvRet = 0
       /\ (cvOp = "calculate_marker_area" /\ cvArgs \in {<<square>>, <<turned>>})
            => cvRet = 100
       /\ (cvOp = "calculate_marker_angle" /\ cvArgs = <<turned>>)
            => cvRet = 1

\* The angle of the turned square has been computed.
C32_Witness ==
    /\ cvOp = "calculate_marker_angle"
    /\ cvArgs = << << <<10, 0>>, <<10, 10>>, <<0, 10>>, <<0, 0>> >> >>
    /\ cvRet = 1

\* C33: a request that waits in completed_requests, or that the consumer
\* has popped and not finished copying, is not queued at the camera.
C33_NotResubmittedBeforeCopy ==
    \A r \in hwQueued :
        r \notin Range(completed_requests) /\ r # held

\* C34: the request the handler reuses and queues, and the request whose
\* buffer libcamera_capture_frame copies, have not been destroyed by
\* libcamera_stop.
C34_NoUseAfterRelease ==
    [][/\ (cbPc = "requeue" /\ cbPc' # "requeue") => Alive(cbReq)
       /\ (cPc = "copy" /\ cPc' # "copy") => Alive(held)]_vars

\* camera_start returns -1: the configuration failed, or one of the steps
\* of libcamera_start_with_params did.
StartFails ==
    /\ kPc' = "idle" /\ kOp' = "start" /\ kRet' = -1
    /\ \/ kPc \in {"start_alloc", "start_hw", "start_queue"}
       \/ kPc = "idle" /\ nStarts' # nStarts

\* C35: when a start fails the camera is not started, running is clear,
\* there is no allocator and no request, the camera is not running and
\* nothing is queued at it.
C35_FailedStartLeavesNothing ==
    [][StartFails
       => /\ ~started' /\ ~running'
          /\ ~allocator' /\ requests' = <<>>
          /\ ~hwRunning' /\ hwQueued' = {}]_vars

\* The holder of g_context_mutex: the handler takes it with a lock_guard
\* as its first statement and holds it until it returns.
\* libcamera_open_camera and libcamera_cleanup take it, in one step, only
\* when the handler is not running.
g_context_mutex == IF cbPc = "idle" THEN "free" ELSE "callback"

\* C36: the handler does not hold g_context_mutex when it calls reuse and
\* queueRequest.
C36_RequeueHoldsNoMutex ==
    [][(cbPc = "requeue" /\ cbPc' # "requeue")
       => g_context_mutex = "free"]_vars

\* ---------------------------------------------------------------------
\* rod_detection: startup and shutdown of the program

\* init_app_context, one call of a library at a time; ok is the result of
\* the call.  camera_set_size cannot refuse a camera that camera_init has
\* just made; the emulated backend can.  The result of
\* camera_interface_set_parameters is not looked at.
init_app_context(ok) ==
    /\ \/ /\ lPc = "init_create"
          /\ ctx_camera' = IF ok THEN "created" ELSE "NULL"
          /\ lPc' = IF ok THEN "init_set_size" ELSE "cleanup"
          /\ UNCHANGED cameraCalls
       \/ /\ lPc = "init_set_size"
          /\ ~ok => camType = "EMULATED"
          /\ IF ok
             THEN lPc' = "init_configure" /\ UNCHANGED appVars
             ELSE \* camera_destroy(ctx->camera); return -1;
                  /\ cameraCalls' = Append(cameraCalls, "destroy")
                  /\ ctx_camera' = "destroyed"
                  /\ lPc' = "cleanup"
       \/ /\ lPc = "init_configure"
          /\ ~ok => camType = "EMULATED"
          /\ lPc' = IF ok THEN "init_start" ELSE "cleanup"
          /\ UNCHANGED appVars
       \/ /\ lPc = "init_start"
          /\ lPc' = IF ok THEN "init_detector" ELSE "cleanup"
          /\ UNCHANGED appVars
       \/ /\ lPc = "init_detector"
          /\ lPc' = IF ok THEN "socket" ELSE "cleanup"
          /\ UNCHANGED appVars
    /\ UNCHANGED <<cameraVars, ifaceVars, emuVars, routeVars, ctxBVars,
                   cvVars, g_running, field_mask, sent, captured,
                   failedCaptures, maskAttempt, owned, paramVars, monVars>>

\* main: rod_socket_server_create, after which the loop is entered.
main_socket_create(ok) ==
    /\ lPc = "socket"
    /\ lPc' = IF ok THEN "test" ELSE "cleanup"
    /\ UNCHANGED <<cameraVars, ifaceVars, emuVars, routeVars, ctxBVars,
                   cvVars, g_running, field_mask, sent, captured,
                   failedCaptures, maskAttempt, owned, paramVars, monVars,
                   appVars>>

\* cleanup_app_context, called by main after a failed startup and after
\* the loop: if (ctx->camera) { camera_interface_stop; camera_destroy }
cleanup_app_context ==
    /\ lPc \in {"cleanup", "exited"}
    /\ lPc' = "done"
    /\ IF ctx_camera # "NULL"
       THEN /\ cameraCalls' = cameraCalls \o <<"stop", "destroy">>
            /\ ctx_camera' = "NULL"
       ELSE UNCHANGED appVars
    /\ field_mask' = NULL
    /\ UNCHANGED <<cameraVars, ifaceVars, emuVars, routeVars, ctxBVars,
                   cvVars, g_running, sent, captured, failedCaptures,
                   maskAttempt, owned, paramVars, monVars>>

\* main has installed its signal handlers and is about to call
\* init_app_context for a camera of either type.
StartupInit ==
    /\ CameraInit /\ ContextInit /\ ParametersInit(NULL) /\ MonitorIdle
    /\ \E type \in CameraTypes : InterfaceInit(type)
    /\ detection = <<>>
    /\ homography_inv = Zeroed /\ mask = NULL /\ markers = <<>>
    /\ cvOp = "none" /\ cvArgs = <<>> /\ cvRet = 0
    /\ transform_matrix = <<0, 0, 0>>
    /\ lPc = "init_create" /\ g_running = TRUE /\ field_mask = NULL
    /\ sent = <<>> /\ captured = "none" /\ failedCaptures = 0
    /\ maskAttempt = <<>> /\ owned = NothingOwned
    /\ ctx_camera = "NULL" /\ cameraCalls = <<>>

StartupNext ==
    \/ \E ok \in BOOLEAN : init_app_context(ok)
    \/ \E ok \in BOOLEAN : main_socket_create(ok)
    \/ LoopNext
    \/ cleanup_app_context

StartupSpec == StartupInit /\ [][StartupNext]_vars

\* C37: a camera is destroyed at most once, and nothing is called on it
\* after it was destroyed.
C37_CameraDestroyedOnce ==
    \A i \in DOMAIN cameraCalls :
        cameraCalls[i] = "destroy" => i = Len(cameraCalls)

\* C38: when an iteration of the loop ends, by a continue or at its last
\* statement, the image_buffer, the original_image and the DetectionResult
\* it acquired have each been released once.
C38_IterationReleasesAll ==
    [][(lPc \in {"capture", "preprocess", "detect"}
        /\ lPc' \in {"test", "backoff", "exited"})
       => \A r \in DOMAIN owned' : owned'[r] \in {"none", "released"}]_vars

\* C39: create_field_mask_from_image called with a homography_inv buffer
\* leaves the buffer as it was when it returns no mask, and has written
\* an inverse homography into it when it returns a mask.
C39_InverseWrittenIffMask ==
    [][(cvOp = "none" /\ cvOp' = "create_field_mask_from_image"
        /\ cvArgs'[1])
       => IF mask' = NULL
          THEN homography_inv' = homography_inv
          ELSE homography_inv' # Zeroed]_vars

\* C40: a camera_interface_set_size that fails leaves the width and height
\* the interface reports as they were, and the interface always reports
\* the size its backend holds.
C40_FailedSetSizeKeepsDimensions ==
    [][/\ \A d \in InterfaceSizes :
            (camera_interface_set_size(d) /\ kRet' # 0)
                => (ifWidth' = ifWidth /\ ifHeight' = ifHeight)
       /\ <<ifWidth', ifHeight'>> =
              IF camType' = "IMX477" THEN <<width', height'>>
              ELSE <<emuWidth', emuHeight'>>]_vars

====
